---- MODULE Spec2Model ----
(***************************************************************************)
(* The gps package of go-gps-simulator: the Simulator's control surface    *)
(* (Start, Stop, UpdateConfig, GetStatus, IsRunning, AddCallback,          *)
(* SetNMEAWriter), its run goroutine (the tick task), the RWMutex that     *)
(* guards the state, the tickers, contexts and duration timers the run     *)
(* loop selects on, and the callback goroutines a tick spawns.             *)
(*                                                                         *)
(* Units.  Wall-clock instants and durations are whole seconds.  Jitter    *)
(* and AltitudeJitter are in tenths (1.0 is 10).  Latitude, longitude and   *)
(* altitude are whole metres on a local tangent plane (north, east, up).   *)
(* Speed is in units of 0.00001 knot, course in whole degrees.             *)
(***************************************************************************)
EXTENDS Integers, Sequences, FiniteSets, TLC

\* ------------------------------------------------------------------ bounds

\* Last instant of the modelled wall clock.
MaxTime == 2
\* Successful Start calls of a program that restarts the simulator, each of
\* which spawns one run goroutine.
MaxStarts == 2
\* Tickers created by Start and by UpdateConfig.
MaxTickers == 2
\* Ticks whose satellite random draws are free; later draws are the middle value.
MaxRandTicks == 1
\* Registered callbacks.
MaxCallbacks == 1
\* Callback goroutines spawned and not yet run.
MaxInflight == 2
\* Track points the track recorder holds.
MaxTrackPoints == 2
\* Last instant of the wall clock when update() and outputNMEA() are called
\* directly, one after the other.
MaxTickTime == 5
\* Satellites a test writes into the list before it calls generateGSV.
MaxSatellites == 12
\* Calls of a method after the simulator's fields were written directly.
MaxSeedCalls == 2
\* Points a test writes into replayPoints before it calls
\* hasSequentialTimestamps.
MaxPoints == 3
\* Seconds between the replay start time a test writes and its call of
\* updateReplayPosition.
MaxElapsed == 4

\* Control-surface callers (goroutines of the embedding program).
Callers == {"c1"}

\* The names of the run goroutines, in the order Start spawns them.
RunNames == <<"run1", "run2", "run3", "run4">>

NoOne == "none"

\* ------------------------------------------------------------------ Config

\* The configuration the tests build on (createTestConfig), with the
\* deterministic motion settings of DefaultConfig.
BaseConfig ==
  [Latitude |-> 0, Longitude |-> 0, Radius |-> 100, Altitude |-> 45,
   Jitter |-> 0, AltitudeJitter |-> 0, Speed |-> 0, Course |-> 0,
   Satellites |-> 4, TimeToLock |-> 1, OutputRate |-> 1, BaudRate |-> 9600,
   GPXEnabled |-> FALSE, GPXFile |-> "", Duration |-> 0,
   ReplayFile |-> "", ReplaySpeed |-> 1, ReplayLoop |-> FALSE]

\* Config.Validate: the first violated rule's error, or "nil".
Validate(c) ==
  IF c.Satellites < 4 \/ c.Satellites > 12 THEN "ErrInvalidSatelliteCount"
  ELSE IF c.Radius < 0 THEN "ErrInvalidRadius"
  ELSE IF c.Jitter < 0 \/ c.Jitter > 10 THEN "ErrInvalidJitter"
  ELSE IF c.AltitudeJitter < 0 \/ c.AltitudeJitter > 10 THEN "ErrInvalidAltitudeJitter"
  ELSE IF c.BaudRate <= 0 THEN "ErrInvalidBaudRate"
  ELSE IF c.Speed < 0 THEN "ErrInvalidSpeed"
  ELSE IF c.Course < 0 \/ c.Course >= 360 THEN "ErrInvalidCourse"
  ELSE IF c.ReplaySpeed <= 0 THEN "ErrInvalidReplaySpeed"
  ELSE "nil"

\* The configurations a simulator is constructed with.
ReplayConfigs ==
  { [BaseConfig EXCEPT !.ReplayFile = "track.gpx", !.ReplayLoop = l, !.TimeToLock = 0] : l \in BOOLEAN }

\* A replay that is not looped.
OneShotReplayConfigs ==
  { [BaseConfig EXCEPT !.ReplayFile = "track.gpx", !.ReplayLoop = FALSE, !.TimeToLock = 0] }

DurationConfigs == { [BaseConfig EXCEPT !.Duration = 1] }

RecordConfigs ==
  { [BaseConfig EXCEPT !.GPXEnabled = TRUE, !.GPXFile = "out.gpx", !.TimeToLock = 0] }

\* What the embedding program does with a simulator: the configurations it
\* constructs one with, the operations it calls, how many times it starts the
\* simulator successfully, for how many ticks the satellites' random draws
\* are free, and the instant up to which it is followed.
Programs ==
  { [configs |-> DurationConfigs, ops |-> {"Start", "Stop"},
     starts |-> MaxStarts, randTicks |-> 0, horizon |-> MaxTime - 1],
    [configs |-> ReplayConfigs, ops |-> {"Start", "Stop", "GetStatus"},
     starts |-> 1, randTicks |-> 0, horizon |-> MaxTime],
    [configs |-> {BaseConfig}, ops |-> {"Start", "UpdateConfig", "IsRunning"},
     starts |-> 1, randTicks |-> MaxRandTicks, horizon |-> MaxTime],
    [configs |-> {BaseConfig}, ops |-> {"Start", "AddCallback", "SetNMEAWriter"},
     starts |-> 1, randTicks |-> 0, horizon |-> MaxTime],
    [configs |-> RecordConfigs, ops |-> {"Start", "Stop"},
     starts |-> 1, randTicks |-> 0, horizon |-> MaxTime],
    [configs |-> {BaseConfig}, ops |-> {"Start", "Stop"},
     starts |-> MaxStarts, randTicks |-> 0, horizon |-> MaxTime],
    [configs |-> OneShotReplayConfigs, ops |-> {"Start"},
     starts |-> MaxStarts, randTicks |-> 0, horizon |-> MaxTime] }

\* The replacement configurations UpdateConfig is called with: the base
\* configuration, and with its output rate or its satellite count changed.
UpdateConfigs ==
  { BaseConfig, [BaseConfig EXCEPT !.OutputRate = 2] }
  \cup { [BaseConfig EXCEPT !.Satellites = n] : n \in {5, 15} }

\* ------------------------------------------------------------------ GPX

\* ReadGPXFile("track.gpx"): the track points of the replay file.
TrackFile ==
  << [Lat |-> 10, Lon |-> 0, LonHair |-> 0, Elevation |-> 50, Time |-> 100],
     [Lat |-> 20, Lon |-> 0, LonHair |-> 0, Elevation |-> 51, Time |-> 101] >>

\* A track of three points whose timestamps increase by unequal steps.
LongTrackFile ==
  << [Lat |-> 10, Lon |-> 0, LonHair |-> 0, Elevation |-> 50, Time |-> 100],
     [Lat |-> 20, Lon |-> 0, LonHair |-> 0, Elevation |-> 51, Time |-> 101],
     [Lat |-> 20, Lon |-> 30, LonHair |-> 0, Elevation |-> 52, Time |-> 103] >>

\* A track whose second timestamp is before its first.
UnorderedTrackFile ==
  << [Lat |-> 10, Lon |-> 0, LonHair |-> 0, Elevation |-> 50, Time |-> 101],
     [Lat |-> 20, Lon |-> 0, LonHair |-> 0, Elevation |-> 51, Time |-> 100] >>

\* A track of three points whose last timestamp is before its second.
ShuffledTrackFile ==
  << [Lat |-> 10, Lon |-> 0, LonHair |-> 0, Elevation |-> 50, Time |-> 100],
     [Lat |-> 20, Lon |-> 0, LonHair |-> 0, Elevation |-> 51, Time |-> 102],
     [Lat |-> 20, Lon |-> 30, LonHair |-> 0, Elevation |-> 52, Time |-> 101] >>

\* A track whose first point is a hair east of the meridian of the second, which
\* is due north of it.
HairTrackFile ==
  << [Lat |-> 10, Lon |-> 0, LonHair |-> 1, Elevation |-> 50, Time |-> 100],
     [Lat |-> 20, Lon |-> 0, LonHair |-> 0, Elevation |-> 51, Time |-> 102] >>

\* A track of three points whose last two timestamps are equal.
RepeatTrackFile ==
  << [Lat |-> 10, Lon |-> 0, LonHair |-> 0, Elevation |-> 50, Time |-> 100],
     [Lat |-> 20, Lon |-> 0, LonHair |-> 0, Elevation |-> 51, Time |-> 101],
     [Lat |-> 20, Lon |-> 30, LonHair |-> 0, Elevation |-> 52, Time |-> 101] >>

\* A file with a track and nothing else.
TrackOnly(points) == [opens |-> TRUE, decodes |-> TRUE, track |-> points, routes |-> <<>>]

\* The files on disk: whether os.Open and the XML decoder succeed, the points
\* of the track and the points of each route.  "routes.gpx" has no track and
\* two routes, "both.gpx" a track and a route, "emptyroute.gpx" no track, an
\* empty first route and a second route with a point, "empty.gpx" neither
\* track nor route, "bad.gpx" is not XML and "missing.gpx" does not exist.
GPXFiles(filename) ==
  CASE filename = "track.gpx" -> TrackOnly(TrackFile)
    [] filename = "long.gpx" -> TrackOnly(LongTrackFile)
    [] filename = "unordered.gpx" -> TrackOnly(UnorderedTrackFile)
    [] filename = "repeat.gpx" -> TrackOnly(RepeatTrackFile)
    [] filename = "hair.gpx" -> TrackOnly(HairTrackFile)
    [] filename = "shuffled.gpx" -> TrackOnly(ShuffledTrackFile)
    [] filename = "single.gpx" -> TrackOnly(SubSeq(TrackFile, 1, 1))
    [] filename = "routes.gpx" ->
         [opens |-> TRUE, decodes |-> TRUE, track |-> <<>>,
          routes |-> <<LongTrackFile, SubSeq(TrackFile, 1, 1)>>]
    [] filename = "both.gpx" ->
         [opens |-> TRUE, decodes |-> TRUE, track |-> TrackFile, routes |-> <<LongTrackFile>>]
    [] filename = "emptyroute.gpx" ->
         [opens |-> TRUE, decodes |-> TRUE, track |-> <<>>, routes |-> <<<<>>, TrackFile>>]
    [] filename = "empty.gpx" ->
         [opens |-> TRUE, decodes |-> TRUE, track |-> <<>>, routes |-> <<>>]
    [] filename = "bad.gpx" ->
         [opens |-> TRUE, decodes |-> FALSE, track |-> <<>>, routes |-> <<>>]
    [] filename = "missing.gpx" ->
         [opens |-> FALSE, decodes |-> FALSE, track |-> <<>>, routes |-> <<>>]

GPXFileNames ==
  {"track.gpx", "long.gpx", "unordered.gpx", "repeat.gpx", "hair.gpx", "shuffled.gpx", "single.gpx", "routes.gpx",
   "both.gpx", "emptyroute.gpx", "empty.gpx", "bad.gpx", "missing.gpx"}

\* The conversion of a route point to a track point, field by field.
FromRoutePoint(rp) ==
  [Lat |-> rp.Lat, Lon |-> rp.Lon, LonHair |-> rp.LonHair,
   Elevation |-> rp.Elevation, Time |-> rp.Time]

\* ReadGPXFile taking the first route before the track.
ReadGPXFileRoutesFirst(filename) ==
  LET gpx == GPXFiles(filename)
      points == IF Len(gpx.routes) > 0 /\ Len(gpx.routes[1]) > 0
                  THEN [i \in 1..Len(gpx.routes[1]) |-> FromRoutePoint(gpx.routes[1][i])]
                ELSE gpx.track
  IN IF ~gpx.opens THEN [points |-> <<>>, err |-> "failed to open GPX file"]
     ELSE IF ~gpx.decodes THEN [points |-> <<>>, err |-> "failed to parse GPX file"]
     ELSE IF Len(points) = 0
       THEN [points |-> <<>>, err |-> "no track points or route points found in GPX file"]
     ELSE [points |-> points, err |-> "nil"]

\* ReadGPXFile(filename): the points and the error it returns.
ReadGPXFile(filename) ==
  LET gpx == GPXFiles(filename)
      points == IF Len(gpx.track) > 0 THEN gpx.track
                ELSE IF Len(gpx.routes) > 0 /\ Len(gpx.routes[1]) > 0
                  THEN [i \in 1..Len(gpx.routes[1]) |-> FromRoutePoint(gpx.routes[1][i])]
                ELSE <<>>
  IN IF ~gpx.opens THEN [points |-> <<>>, err |-> "failed to open GPX file"]
     ELSE IF ~gpx.decodes THEN [points |-> <<>>, err |-> "failed to parse GPX file"]
     ELSE IF Len(points) = 0
       THEN [points |-> <<>>, err |-> "no track points or route points found in GPX file"]
     ELSE [points |-> points, err |-> "nil"]

\* ------------------------------------------------------------------ satellites

\* Go's % : the remainder truncated towards zero.
GoMod(a, n) == IF a >= 0 THEN a % n ELSE 0 - ((0 - a) % n)

\* Go's integer division, which truncates toward zero.
GoDiv(a, n) == IF a >= 0 THEN a \div n ELSE 0 - ((0 - a) \div n)

\* time.Second, in the nanoseconds a time.Duration counts.
Second == 1000000000

\* pointInterval of updateReplayPosition for a whole replay speed:
\* time.Duration(float64(time.Second) / ReplaySpeed), the conversion dropping
\* the fraction, so that a speed above Second leaves an interval of 0.
PointInterval(speed) == Second \div speed

\* int(elapsedTime / pointInterval) for an elapsed time of whole seconds and
\* a pointInterval that is not 0: the quotient of elapsedTime * Second by the
\* interval, taken a second at a time.
PointsSinceStart(elapsedTime, speed) ==
  LET interval == PointInterval(speed)
  IN IF interval = 0 THEN 0
     ELSE elapsedTime * (Second \div interval) + GoDiv(elapsedTime * (Second % interval), interval)

\* initializeSatellites: draw[i] holds the three rand.Intn results of satellite i.
initializeSatellites(n, draw) ==
  [i \in 1..n |-> [ID |-> i,
                   Elevation |-> draw[i][1] + 10,
                   Azimuth |-> draw[i][2],
                   SNR |-> draw[i][3] + 20]]

ClampInt(x, lo, hi) == IF x < lo THEN lo ELSE IF x > hi THEN hi ELSE x

\* updateSatellites: draw[i] holds rand.Intn(3), rand.Intn(3), rand.Intn(6) of satellite i.
updateSatellites(sats, draw) ==
  [i \in 1..Len(sats) |->
     [ID |-> sats[i].ID,
      Elevation |-> ClampInt(sats[i].Elevation + draw[i][1] - 1, 5, 85),
      Azimuth |-> GoMod(sats[i].Azimuth + draw[i][2] - 1 + 360, 360),
      SNR |-> ClampInt(sats[i].SNR + draw[i][3] - 3, 15, 55)]]

\* The draws of one tick, the same for every satellite: free while the budget
\* lasts, the middle value (no movement) afterwards.
SatDraws(budget) ==
  IF budget > 0 THEN {<<0, 0, 0>>, <<1, 1, 3>>, <<2, 2, 5>>} ELSE {<<1, 1, 3>>}

\* The values of rand.Intn(n).
Intn(n) == 0..(n - 1)

\* Every outcome of the three draws updateSatellites makes for a satellite.
EverySatDraw == Intn(3) \X Intn(3) \X Intn(6)

\* The draws of the motion model in one tick: us, uc and ua stand for
\* (rand.Float64() - 0.5) * 2 in the speed, course and altitude changes, ub
\* for the bounce's (rand.Float64() - 0.5) * 60.  Free while the budget lasts
\* and the configuration uses them, the middle values afterwards.
NoMotionDraw == [us |-> 0, uc |-> 0, ub |-> 0, ua |-> 0]

MotionDraws(config, budget) ==
  IF budget > 0
    THEN [us : IF config.Jitter > 0 THEN {0 - 1, 0, 1} ELSE {0},
          uc : IF config.Jitter > 0 THEN {0 - 1, 0, 1} ELSE {0},
          ub : IF config.Jitter > 5 THEN {0 - 30, 0, 30} ELSE {0},
          ua : IF config.AltitudeJitter > 0 THEN {0 - 1, 0, 1} ELSE {0}]
    ELSE {NoMotionDraw}

\* ------------------------------------------------------------------ state

VARIABLES
  sim,       \* the Simulator struct's fields (mu apart)
  mu,        \* the RWMutex: its writer and its readers
  now,       \* the wall clock
  cancelled, \* the contexts whose cancel() has run
  tickers,   \* every ticker created: period, stopped, ticks buffered in C
  runs,      \* the run goroutines, one per successful Start
  callers,   \* the control-surface callers: the call each is in
  inflight,  \* callback goroutines spawned and not yet run
  seen,      \* per callback, the Timestamp of the NMEAData it was last run with
  randLeft,  \* ticks whose random draws are still free
  program    \* what the embedding program does (fixed at construction)

vars == <<sim, mu, now, cancelled, tickers, runs, callers, inflight, seen, randLeft, program>>

Idle == [pc |-> "idle", op |-> "", arg |-> <<>>, ret |-> ""]

\* NewSimulator(config) for a valid config, at instant 0.
NewSimulator(config, satDraw) ==
  LET points == IF config.ReplayFile # "" THEN ReadGPXFile(config.ReplayFile).points ELSE <<>>
      atFirst == config.ReplayFile # "" /\ Len(points) > 0
  IN [config |-> config,
      currentLat |-> IF atFirst THEN points[1].Lat ELSE config.Latitude,
      currentLatUlps |-> 0,
      currentLon |-> IF atFirst THEN points[1].Lon ELSE config.Longitude,
      currentAlt |-> IF atFirst THEN points[1].Elevation ELSE config.Altitude,
      currentSpeed |-> config.Speed,
      currentCourse |-> config.Course,
      isLocked |-> FALSE,
      startTime |-> 0,
      lockTime |-> 0 + config.TimeToLock,
      lastUpdateTime |-> 0,
      satellites |-> initializeSatellites(config.Satellites, [i \in 1..config.Satellites |-> satDraw]),
      nmeaWriter |-> FALSE,
      gpxWriter |-> (config.GPXEnabled /\ config.GPXFile # ""),
      gpxPoints |-> <<>>,
      gpxFile |-> [points |-> 0, closed |-> FALSE],
      replayPoints |-> points,
      replayIndex |-> 0,
      replayStartTime |-> 0,
      replayCompleted |-> FALSE,
      running |-> FALSE,
      ctx |-> 0,
      ticker |-> 0,
      callbacks |-> <<>>]

Init ==
  /\ program \in Programs
  /\ \E c \in program.configs : sim = NewSimulator(c, <<0, 0, 0>>)
  /\ mu = [w |-> NoOne, r |-> {}]
  /\ now = 0
  /\ cancelled = {}
  /\ tickers = <<>>
  /\ runs = <<>>
  /\ callers = [c \in Callers |-> Idle]
  /\ inflight = <<>>
  /\ seen = <<>>
  /\ randLeft = program.randTicks

\* ------------------------------------------------------------------ the track recorder

\* GPXWriter.WriteToFile: the file is rewritten with the points held; on a
\* closed file the first file operation fails and nothing is written.
WriteToFile(s) ==
  IF s.gpxFile.closed THEN s ELSE [s EXCEPT !.gpxFile.points = Len(s.gpxPoints)]

\* GPXWriter.Close: a last WriteToFile, then the file is closed.
Close(s) == [WriteToFile(s) EXCEPT !.gpxFile.closed = TRUE]

\* GPXWriter.AddTrackPoint
AddTrackPoint(s, t) ==
  [s EXCEPT !.gpxPoints = Append(@, [Lat |-> s.currentLat, Lon |-> s.currentLon,
                                     Elevation |-> s.currentAlt, Time |-> t])]

\* updateGPX at instant t.
updateGPX(s, t) ==
  IF s.gpxWriter /\ s.isLocked
    THEN LET s1 == AddTrackPoint(s, t)
         IN IF Len(s1.gpxPoints) % 10 = 0 THEN WriteToFile(s1) ELSE s1
    ELSE s

\* ------------------------------------------------------------------ the lock

Unlocked == [w |-> NoOne, r |-> {}]

\* sync.RWMutex.Lock: granted when there is no writer and no reader.
Lock(t) ==
  /\ mu.w = NoOne /\ mu.r = {}
  /\ mu' = [mu EXCEPT !.w = t]

\* sync.RWMutex.RLock: granted when there is no writer.
RLock(t) ==
  /\ mu.w = NoOne
  /\ mu' = [mu EXCEPT !.r = @ \cup {t}]

Unlock(t) == mu' = [mu EXCEPT !.w = NoOne]

RUnlock(t) == mu' = [mu EXCEPT !.r = @ \ {t}]

\* ------------------------------------------------------------------ tickers

\* time.NewTicker(d): running, nothing buffered in its channel C.
NewTicker(d) == [period |-> d, stopped |-> FALSE, c |-> 0]

\* The calls in progress that will create a ticker (Start, UpdateConfig) or a
\* run goroutine (Start) or register a callback: the bounds count them.
Pending(op) == Cardinality({c \in Callers : callers[c].pc \in {"lock", "held"} /\ callers[c].op = op})

\* ------------------------------------------------------------------ control surface

\* The call of caller c returns ret: the caller holds the result until it
\* goes on (Return).
ReturnsWith(c, op, arg, ret) ==
  callers' = [callers EXCEPT ![c] = [pc |-> "returned", op |-> op, arg |-> arg, ret |-> ret]]

Returns(c, op, ret) == ReturnsWith(c, op, <<>>, ret)

Return(c) ==
  /\ callers[c].pc = "returned"
  /\ callers' = [callers EXCEPT ![c] = Idle]
  /\ UNCHANGED <<sim, mu, now, cancelled, tickers, runs, inflight, seen, randLeft, program>>

\* A caller enters Start, Stop, GetStatus, IsRunning, AddCallback or
\* SetNMEAWriter: its first statement asks for the lock.
Call(c, op) ==
  /\ callers[c].pc = "idle"
  /\ op \in program.ops \ {"UpdateConfig"}
  /\ op = "Start" =>
        /\ Len(runs) + Pending("Start") < program.starts
        /\ Len(tickers) + Pending("Start") + Pending("UpdateConfig") < MaxTickers
  /\ op = "AddCallback" => Len(sim.callbacks) + Pending("AddCallback") < MaxCallbacks
  /\ callers' = [callers EXCEPT ![c] = [pc |-> "lock", op |-> op, arg |-> <<>>, ret |-> ""]]
  /\ UNCHANGED <<sim, mu, now, cancelled, tickers, runs, inflight, seen, randLeft, program>>

\* UpdateConfig storing the configuration before it validates it.
CallUpdateConfigUnvalidated(c, newConfig) ==
  /\ callers[c].pc = "idle"
  /\ "UpdateConfig" \in program.ops
  /\ Len(tickers) + Pending("Start") + Pending("UpdateConfig") < MaxTickers
  /\ sim' = [sim EXCEPT !.config = newConfig]
  /\ ReturnsWith(c, "UpdateConfig", <<newConfig>>, Validate(newConfig))
  /\ UNCHANGED <<mu, now, cancelled, tickers, runs, inflight, seen, randLeft, program>>

\* UpdateConfig, up to its Lock: Validate runs first and its error is returned
\* before the lock is asked for.
CallUpdateConfig(c, newConfig) ==
  /\ callers[c].pc = "idle"
  /\ "UpdateConfig" \in program.ops
  /\ Len(tickers) + Pending("Start") + Pending("UpdateConfig") < MaxTickers
  /\ IF Validate(newConfig) # "nil"
       THEN /\ ReturnsWith(c, "UpdateConfig", <<newConfig>>, Validate(newConfig))
       ELSE /\ callers' = [callers EXCEPT ![c] = [pc |-> "lock", op |-> "UpdateConfig", arg |-> <<newConfig>>, ret |-> ""]]
  /\ UNCHANGED <<sim, mu, now, cancelled, tickers, runs, inflight, seen, randLeft, program>>

\* s.mu.Lock() of a mutating call, s.mu.RLock() of GetStatus and IsRunning.
Acquire(c) ==
  /\ callers[c].pc = "lock"
  /\ IF callers[c].op \in {"GetStatus", "IsRunning"} THEN RLock(c) ELSE Lock(c)
  /\ callers' = [callers EXCEPT ![c].pc = "held"]
  /\ UNCHANGED <<sim, now, cancelled, tickers, runs, inflight, seen, randLeft, program>>

\* A run goroutine as `go s.run()` leaves it: not yet scheduled.  ctx and tick are
\* the context and ticker whose channels its select waits on (0 outside the
\* select), timer the instant its duration timer is due (-1: none), why the
\* reason it calls Stop, ret what that Stop returned; sentences, timestamp and
\* written are the locals of outputNMEA (empty outside it).
NewRun == [pc |-> "spawned", ctx |-> 0, tick |-> 0, timer |-> 0 - 1, why |-> "", ret |-> "",
           sentences |-> <<>>, timestamp |-> 0, written |-> <<>>]

\* Start without its running check.
StartUnchecked(c) ==
  /\ callers[c].pc = "held" /\ callers[c].op = "Start"
  /\ sim' = [sim EXCEPT !.ctx = Len(runs) + 1,
                        !.ticker = Len(tickers) + 1,
                        !.running = TRUE,
                        !.startTime = now,
                        !.lockTime = now + sim.config.TimeToLock]
  /\ tickers' = Append(tickers, NewTicker(sim.config.OutputRate))
  /\ runs' = Append(runs, NewRun)
  /\ Returns(c, "Start", "nil")
  /\ Unlock(c)
  /\ UNCHANGED <<now, cancelled, inflight, seen, randLeft, program>>

\* Start beginning every run unlocked.
StartResetsLock(c) ==
  /\ callers[c].pc = "held" /\ callers[c].op = "Start"
  /\ IF sim.running
       THEN /\ Returns(c, "Start", "ErrSimulatorAlreadyRunning")
            /\ UNCHANGED <<sim, tickers, runs>>
       ELSE /\ sim' = [sim EXCEPT !.ctx = Len(runs) + 1,
                                   !.ticker = Len(tickers) + 1,
                                   !.running = TRUE,
                                   !.isLocked = FALSE,
                                   !.startTime = now,
                                   !.lockTime = now + sim.config.TimeToLock]
            /\ tickers' = Append(tickers, NewTicker(sim.config.OutputRate))
            /\ runs' = Append(runs, NewRun)
            /\ Returns(c, "Start", "nil")
  /\ Unlock(c)
  /\ UNCHANGED <<now, cancelled, inflight, seen, randLeft, program>>

\* Start beginning every run at the first point of the replay.
StartResetsReplay(c) ==
  /\ callers[c].pc = "held" /\ callers[c].op = "Start"
  /\ IF sim.running
       THEN /\ Returns(c, "Start", "ErrSimulatorAlreadyRunning")
            /\ UNCHANGED <<sim, tickers, runs>>
       ELSE /\ sim' = [sim EXCEPT !.ctx = Len(runs) + 1,
                                   !.ticker = Len(tickers) + 1,
                                   !.running = TRUE,
                                   !.replayIndex = 0,
                                   !.replayStartTime = now,
                                   !.replayCompleted = FALSE,
                                   !.startTime = now,
                                   !.lockTime = now + sim.config.TimeToLock]
            /\ tickers' = Append(tickers, NewTicker(sim.config.OutputRate))
            /\ runs' = Append(runs, NewRun)
            /\ Returns(c, "Start", "nil")
  /\ Unlock(c)
  /\ UNCHANGED <<now, cancelled, inflight, seen, randLeft, program>>

\* Start, from the lock to the deferred Unlock.
Start(c) ==
  /\ callers[c].pc = "held" /\ callers[c].op = "Start"
  /\ IF sim.running
       THEN /\ Returns(c, "Start", "ErrSimulatorAlreadyRunning")
            /\ UNCHANGED <<sim, tickers, runs>>
       ELSE /\ sim' = [sim EXCEPT !.ctx = Len(runs) + 1,
                                   !.ticker = Len(tickers) + 1,
                                   !.running = TRUE,
                                   !.startTime = now,
                                   !.lockTime = now + sim.config.TimeToLock]
            /\ tickers' = Append(tickers, NewTicker(sim.config.OutputRate))
            /\ runs' = Append(runs, NewRun)
            /\ Returns(c, "Start", "nil")
  /\ Unlock(c)
  /\ UNCHANGED <<now, cancelled, inflight, seen, randLeft, program>>

\* The body of Stop between Lock and Unlock, as run by thread t: the new
\* simulator fields, cancelled contexts and tickers.
StopSim ==
  LET s == [sim EXCEPT !.running = FALSE]
  IN IF s.gpxWriter THEN Close(s) ELSE s

StopEffects ==
  IF ~sim.running
    THEN /\ UNCHANGED <<sim, cancelled, tickers>>
    ELSE /\ cancelled' = cancelled \cup {sim.ctx}
         /\ tickers' = [tickers EXCEPT ![sim.ticker].stopped = TRUE]
         /\ sim' = StopSim

StopRet == IF ~sim.running THEN "ErrSimulatorNotRunning" ELSE "nil"

\* Stop called from the control surface, from the lock to the deferred Unlock.
Stop(c) ==
  /\ callers[c].pc = "held" /\ callers[c].op = "Stop"
  /\ StopEffects
  /\ Returns(c, "Stop", StopRet)
  /\ Unlock(c)
  /\ UNCHANGED <<now, runs, inflight, seen, randLeft, program>>

\* IsRunning, from the read lock to the deferred RUnlock.
IsRunning(c) ==
  /\ callers[c].pc = "held" /\ callers[c].op = "IsRunning"
  /\ Returns(c, "IsRunning", IF sim.running THEN "true" ELSE "false")
  /\ RUnlock(c)
  /\ UNCHANGED <<sim, now, cancelled, tickers, runs, inflight, seen, randLeft, program>>

\* GetStatus, from the read lock to the deferred RUnlock; of the Status it
\* returns, the caller keeps Running.
GetStatus(c) ==
  /\ callers[c].pc = "held" /\ callers[c].op = "GetStatus"
  /\ Returns(c, "GetStatus", IF sim.running THEN "true" ELSE "false")
  /\ RUnlock(c)
  /\ UNCHANGED <<sim, now, cancelled, tickers, runs, inflight, seen, randLeft, program>>

\* AddCallback, from the lock to the deferred Unlock.
AddCallback(c) ==
  /\ callers[c].pc = "held" /\ callers[c].op = "AddCallback"
  /\ sim' = [sim EXCEPT !.callbacks = Append(@, Len(@) + 1)]
  /\ seen' = Append(seen, 0 - 1)
  /\ Returns(c, "AddCallback", "nil")
  /\ Unlock(c)
  /\ UNCHANGED <<now, cancelled, tickers, runs, inflight, randLeft, program>>

\* SetNMEAWriter, from the lock to the deferred Unlock.
SetNMEAWriter(c) ==
  /\ callers[c].pc = "held" /\ callers[c].op = "SetNMEAWriter"
  /\ sim' = [sim EXCEPT !.nmeaWriter = TRUE]
  /\ Returns(c, "SetNMEAWriter", "nil")
  /\ Unlock(c)
  /\ UNCHANGED <<now, cancelled, tickers, runs, inflight, seen, randLeft, program>>

\* UpdateConfig, from the lock to the deferred Unlock.
UpdateConfig(c) ==
  /\ callers[c].pc = "held" /\ callers[c].op = "UpdateConfig"
  /\ LET newConfig == callers[c].arg[1]
         oldRate == sim.config.OutputRate
     IN IF sim.running /\ oldRate # newConfig.OutputRate
          THEN /\ tickers' = Append([tickers EXCEPT ![sim.ticker].stopped = TRUE],
                                     NewTicker(newConfig.OutputRate))
               /\ sim' = [sim EXCEPT !.config = newConfig, !.ticker = Len(tickers) + 1]
          ELSE /\ sim' = [sim EXCEPT !.config = newConfig]
               /\ UNCHANGED tickers
  /\ ReturnsWith(c, "UpdateConfig", callers[c].arg, "nil")
  /\ Unlock(c)
  /\ UNCHANGED <<now, cancelled, runs, inflight, seen, randLeft, program>>

\* ------------------------------------------------------------------ geometry

Abs(x) == IF x < 0 THEN 0 - x ELSE x

\* The integer part of the square root.
ISqrt(n) == CHOOSE r \in 0..n : r * r <= n /\ (r + 1) * (r + 1) > n

\* calculateDistance on the tangent plane: exact between points on a common
\* meridian or parallel, rounded down to the metre elsewhere.
calculateDistance(lat1, lon1, lat2, lon2) ==
  IF lon1 = lon2 THEN Abs(lat2 - lat1)
  ELSE IF lat1 = lat2 THEN Abs(lon2 - lon1)
  ELSE ISqrt((lat2 - lat1) * (lat2 - lat1) + (lon2 - lon1) * (lon2 - lon1))

\* The bearings the model computes with: the multiples of 30 degrees.
Bearings == {30 * k : k \in 0..11}

\* 1000 * sin and 1000 * cos of a bearing of Bearings.
Sin1000(b) ==
  LET v == CASE b % 180 = 0 -> 0
             [] b % 180 \in {30, 150} -> 500
             [] b % 180 \in {60, 120} -> 866
             [] b % 180 = 90 -> 1000
  IN IF b < 180 THEN v ELSE 0 - v

Cos1000(b) == Sin1000((b + 90) % 360)

\* distance * k / 1000, truncated towards zero to the metre.
Along(distance, k) ==
  IF distance * k >= 0 THEN (distance * k) \div 1000 ELSE 0 - ((0 - distance * k) \div 1000)

\* calculateBearing on the tangent plane, to the nearest bearing of Bearings:
\* exact for a second point due north, east, south or west of the first
\* (atan2(0, 0) is 0 for coinciding points).  hair is the sign of the part of
\* lon2 - lon1 that is below the metre, of the order of 1e-15 degrees: with the
\* second point north of the first and a hair west of it, atan2 is negative
\* and smaller than half the spacing of float64 at 360, so that bearing + 360
\* is 360.
calculateBearing(lat1, lon1, lat2, lon2, hair) ==
  LET towards(b) == (lat2 - lat1) * Cos1000(b) + (lon2 - lon1) * Sin1000(b)
      nearest == {b \in Bearings : \A c \in Bearings : towards(b) >= towards(c)}
      turn == CHOOSE b \in nearest : \A c \in nearest : b <= c
      atan2 == IF turn > 180 THEN turn - 360 ELSE turn
      bearing == atan2
  IN IF bearing < 0 \/ (bearing = 0 /\ lat2 > lat1 /\ hair < 0)
       THEN bearing + 360
       ELSE bearing

\* calculateNewPosition on the tangent plane, for a bearing of Bearings.
calculateNewPosition(lat, lon, distance, bearing) ==
  <<lat + Along(distance, Cos1000(bearing)), lon + Along(distance, Sin1000(bearing))>>

\* A latitude, in degrees, that calculateNewPosition does not give back for a
\* zero distance: asin(sin(45 * Pi / 180)) * 180 / Pi is 44.99999999999999.
InexactLatitude == 45

\* What calculateNewPosition leaves, in units in the last place of float64,
\* between the latitude it returns and the whole metre the model keeps: for a
\* zero distance the error of taking the latitude through radians, sin, asin
\* and degrees, which is one unit down for InexactLatitude and is not
\* repeated once made; nothing the model keeps for a positive distance.
RoundTripUlps(lat, ulps, distance) ==
  IF distance # 0 THEN 0
  ELSE IF ulps # 0 THEN ulps
  ELSE IF lat = InexactLatitude THEN 0 - 1
  ELSE 0

distanceFromCenter(s, lat, lon) ==
  calculateDistance(s.config.Latitude, s.config.Longitude, lat, lon)

\* ------------------------------------------------------------------ motion

\* The normalisation loops of updateSpeedAndCourse and updatePosition.
RECURSIVE NormalizeCourse(_)
NormalizeCourse(c) ==
  IF c < 0 THEN NormalizeCourse(c + 360)
  ELSE IF c >= 360 THEN NormalizeCourse(c - 360)
  ELSE c

\* The speed variation of a jitter level, in units of 0.0001.
SpeedVariation(j) ==
  IF j = 0 THEN 0
  ELSE IF j < 2 THEN 500
  ELSE IF j < 7 THEN 1000 + (j - 2) * 400
  ELSE 3000 + (j - 7) * 670

\* The course variation of a jitter level, in degrees.
CourseVariation(j) ==
  IF j = 0 THEN 0
  ELSE IF j < 2 THEN 2
  ELSE IF j < 7 THEN 5 + (j - 2) * 2
  ELSE 15 + (j - 7) * 5

\* updateSpeedAndCourse: us and uc stand for (rand.Float64() - 0.5) * 2, taken
\* from {-1, 0, 1}.
updateSpeedAndCourse(s, us, uc) ==
  LET speed == s.config.Speed + us * ((s.config.Speed \div 10000) * SpeedVariation(s.config.Jitter))
  IN [s EXCEPT !.currentSpeed = IF speed < 0 THEN 0 ELSE speed,
               !.currentCourse = NormalizeCourse(s.config.Course + uc * CourseVariation(s.config.Jitter))]

\* updatePosition without the early return on a non-positive deltaTime.
updatePositionUnguarded(s, t, ub) ==
  LET deltaTime == t - s.lastUpdateTime
      s1 == [s EXCEPT !.lastUpdateTime = t]
      distanceMeters == ((s.currentSpeed \div 100000) * 514444 * deltaTime) \div 1000000
      cand == calculateNewPosition(s.currentLat, s.currentLon, distanceMeters, s.currentCourse)
  IN IF distanceFromCenter(s, cand[1], cand[2]) > s.config.Radius
       THEN IF s.config.Jitter > 5
              THEN LET course == NormalizeCourse(s.currentCourse + ub)
                       p == calculateNewPosition(s.currentLat, s.currentLon, distanceMeters, course)
                   IN [s1 EXCEPT !.currentCourse = course, !.currentLat = p[1], !.currentLon = p[2],
                                 !.currentLatUlps = RoundTripUlps(s.currentLat, @, distanceMeters)]
              ELSE LET bearing == calculateBearing(s.config.Latitude, s.config.Longitude, cand[1], cand[2], 0)
                       p == calculateNewPosition(s.config.Latitude, s.config.Longitude, s.config.Radius, bearing)
                   IN [s1 EXCEPT !.currentLat = p[1], !.currentLon = p[2],
                                 !.currentLatUlps = RoundTripUlps(s.config.Latitude, 0, s.config.Radius)]
       ELSE [s1 EXCEPT !.currentLat = cand[1], !.currentLon = cand[2],
                       !.currentLatUlps = RoundTripUlps(s.currentLat, @, distanceMeters)]

\* updatePosition at instant t: ub stands for the bounce's random course change,
\* in degrees.  Distances are whole metres.
updatePosition(s, t, ub) ==
  LET deltaTime == t - s.lastUpdateTime
      s1 == [s EXCEPT !.lastUpdateTime = t]
      distanceMeters == ((s.currentSpeed \div 100000) * 514444 * deltaTime) \div 1000000
      cand == calculateNewPosition(s.currentLat, s.currentLon, distanceMeters, s.currentCourse)
  IN IF deltaTime <= 0 THEN s1
     ELSE IF distanceFromCenter(s, cand[1], cand[2]) > s.config.Radius
       THEN IF s.config.Jitter > 5
              THEN LET course == NormalizeCourse(s.currentCourse + ub)
                       p == calculateNewPosition(s.currentLat, s.currentLon, distanceMeters, course)
                   IN [s1 EXCEPT !.currentCourse = course, !.currentLat = p[1], !.currentLon = p[2],
                                 !.currentLatUlps = RoundTripUlps(s.currentLat, @, distanceMeters)]
              ELSE LET bearing == calculateBearing(s.config.Latitude, s.config.Longitude, cand[1], cand[2], 0)
                       p == calculateNewPosition(s.config.Latitude, s.config.Longitude, s.config.Radius, bearing)
                   IN [s1 EXCEPT !.currentLat = p[1], !.currentLon = p[2],
                                 !.currentLatUlps = RoundTripUlps(s.config.Latitude, 0, s.config.Radius)]
       ELSE [s1 EXCEPT !.currentLat = cand[1], !.currentLon = cand[2],
                       !.currentLatUlps = RoundTripUlps(s.currentLat, @, distanceMeters)]

\* updateAltitude: change stands for the random change, in metres.
updateAltitude(s, change) ==
  IF s.config.AltitudeJitter > 0
    THEN LET minAltitude == IF s.config.Altitude - 100 < 0 - 50 THEN 0 - 50 ELSE s.config.Altitude - 100
             maxAltitude == s.config.Altitude + 500
         IN [s EXCEPT !.currentAlt = ClampInt(s.currentAlt + change, minAltitude, maxAltitude)]
    ELSE s

\* ------------------------------------------------------------------ replay

\* hasSequentialTimestamps refusing equal timestamps.
hasSequentialTimestampsStrict(points) ==
  /\ Len(points) >= 2
  /\ \A i \in 1..(Len(points) - 1) : points[i + 1].Time > points[i].Time

hasSequentialTimestamps(points) ==
  /\ Len(points) >= 2
  /\ \A i \in 1..(Len(points) - 1) : ~(points[i + 1].Time < points[i].Time)

\* The time-based cursor taking only the points strictly before targetTime.
RECURSIVE ScanIndexStrict(_, _, _, _)
ScanIndexStrict(points, targetTime, i, newIndex) ==
  IF i >= Len(points) THEN newIndex
  ELSE IF targetTime > points[i + 1].Time THEN ScanIndexStrict(points, targetTime, i + 1, i)
  ELSE newIndex

\* The time-based cursor: the last index (from 0) of the leading run of points
\* whose time is not after targetTime, Len(points) past the last timestamp.
RECURSIVE ScanIndex(_, _, _, _)
ScanIndex(points, targetTime, i, newIndex) ==
  IF i >= Len(points) THEN newIndex
  ELSE IF targetTime >= points[i + 1].Time THEN ScanIndex(points, targetTime, i + 1, i)
  ELSE newIndex

\* updateReplayPosition divides by pointInterval in its index-based branch:
\* with an interval of 0 the goroutine panics (integer divide by zero).
updateReplayPositionPanics(s) ==
  /\ Len(s.replayPoints) > 0
  /\ ~hasSequentialTimestamps(s.replayPoints)
  /\ PointInterval(IF s.config.ReplaySpeed <= 0 THEN 1 ELSE s.config.ReplaySpeed) = 0

\* updateReplayPosition keeping the replay start reference when it loops.
updateReplayPositionKeepStart(s, t) ==
  IF Len(s.replayPoints) = 0 THEN s
  ELSE
    LET n == Len(s.replayPoints)
        speed == IF s.config.ReplaySpeed <= 0 THEN 1 ELSE s.config.ReplaySpeed
        s0 == [s EXCEPT !.config.ReplaySpeed = speed]
        elapsedTime == t - s.replayStartTime
        adjustedTime == elapsedTime * speed
        useTimestamps == hasSequentialTimestamps(s.replayPoints)
        targetTime == s.replayPoints[1].Time + adjustedTime
        timeIndex == IF targetTime > s.replayPoints[n].Time THEN n
                     ELSE ScanIndex(s.replayPoints, targetTime, 0, 0)
        pointsSinceStart == PointsSinceStart(elapsedTime, speed)
        index == IF useTimestamps THEN timeIndex
                 ELSE IF s.config.ReplayLoop THEN GoMod(pointsSinceStart, n)
                 ELSE pointsSinceStart
    IN IF index >= n
         THEN IF s.config.ReplayLoop
                THEN [s0 EXCEPT !.replayCompleted = TRUE, !.replayIndex = 0]
                ELSE [s0 EXCEPT !.replayCompleted = TRUE, !.replayIndex = index]
         ELSE
           LET currentPoint == s.replayPoints[index + 1]
               s1 == [s0 EXCEPT !.replayIndex = index,
                                !.currentLat = currentPoint.Lat,
                                !.currentLon = currentPoint.Lon,
                                !.currentAlt = currentPoint.Elevation]
           IN IF index < n - 1
                THEN LET nextPoint == s.replayPoints[index + 2]
                         distance == calculateDistance(currentPoint.Lat, currentPoint.Lon, nextPoint.Lat, nextPoint.Lon)
                         timeDiff == IF useTimestamps THEN nextPoint.Time - currentPoint.Time ELSE 1
                     IN IF timeDiff > 0
                          THEN [s1 EXCEPT !.currentSpeed = (distance * 194384) \div timeDiff,
                                          !.currentCourse = calculateBearing(currentPoint.Lat, currentPoint.Lon, nextPoint.Lat, nextPoint.Lon,
                                                                           nextPoint.LonHair - currentPoint.LonHair)]
                          ELSE s1
                ELSE s1

\* updateReplayPosition using 1.0 for a non-positive ReplaySpeed without storing it.
updateReplayPositionSpeedNotStored(s, t) ==
  IF Len(s.replayPoints) = 0 THEN s
  ELSE
    LET n == Len(s.replayPoints)
        speed == IF s.config.ReplaySpeed <= 0 THEN 1 ELSE s.config.ReplaySpeed
        s0 == s
        elapsedTime == t - s.replayStartTime
        adjustedTime == elapsedTime * speed
        useTimestamps == hasSequentialTimestamps(s.replayPoints)
        targetTime == s.replayPoints[1].Time + adjustedTime
        timeIndex == IF targetTime > s.replayPoints[n].Time THEN n
                     ELSE ScanIndex(s.replayPoints, targetTime, 0, 0)
        pointsSinceStart == PointsSinceStart(elapsedTime, speed)
        index == IF useTimestamps THEN timeIndex
                 ELSE IF s.config.ReplayLoop THEN GoMod(pointsSinceStart, n)
                 ELSE pointsSinceStart
    IN IF index >= n
         THEN IF s.config.ReplayLoop
                THEN [s0 EXCEPT !.replayCompleted = TRUE, !.replayIndex = 0, !.replayStartTime = t]
                ELSE [s0 EXCEPT !.replayCompleted = TRUE, !.replayIndex = index]
         ELSE
           LET currentPoint == s.replayPoints[index + 1]
               s1 == [s0 EXCEPT !.replayIndex = index,
                                !.currentLat = currentPoint.Lat,
                                !.currentLon = currentPoint.Lon,
                                !.currentAlt = currentPoint.Elevation]
           IN IF index < n - 1
                THEN LET nextPoint == s.replayPoints[index + 2]
                         distance == calculateDistance(currentPoint.Lat, currentPoint.Lon, nextPoint.Lat, nextPoint.Lon)
                         timeDiff == IF useTimestamps THEN nextPoint.Time - currentPoint.Time ELSE 1
                     IN IF timeDiff > 0
                          THEN [s1 EXCEPT !.currentSpeed = (distance * 194384) \div timeDiff,
                                          !.currentCourse = calculateBearing(currentPoint.Lat, currentPoint.Lon, nextPoint.Lat, nextPoint.Lon,
                                                                           nextPoint.LonHair - currentPoint.LonHair)]
                          ELSE s1
                ELSE s1

\* updateReplayPosition at instant t.
updateReplayPosition(s, t) ==
  IF Len(s.replayPoints) = 0 THEN s
  ELSE
    LET n == Len(s.replayPoints)
        speed == IF s.config.ReplaySpeed <= 0 THEN 1 ELSE s.config.ReplaySpeed
        s0 == [s EXCEPT !.config.ReplaySpeed = speed]
        elapsedTime == t - s.replayStartTime
        adjustedTime == elapsedTime * speed
        useTimestamps == hasSequentialTimestamps(s.replayPoints)
        targetTime == s.replayPoints[1].Time + adjustedTime
        timeIndex == IF targetTime > s.replayPoints[n].Time THEN n
                     ELSE ScanIndex(s.replayPoints, targetTime, 0, 0)
        pointsSinceStart == PointsSinceStart(elapsedTime, speed)
        index == IF useTimestamps THEN timeIndex
                 ELSE IF s.config.ReplayLoop THEN GoMod(pointsSinceStart, n)
                 ELSE pointsSinceStart
    IN IF index >= n
         THEN IF s.config.ReplayLoop
                THEN [s0 EXCEPT !.replayCompleted = TRUE, !.replayIndex = 0, !.replayStartTime = t]
                ELSE [s0 EXCEPT !.replayCompleted = TRUE, !.replayIndex = index]
         ELSE
           LET currentPoint == s.replayPoints[index + 1]
               s1 == [s0 EXCEPT !.replayIndex = index,
                                !.currentLat = currentPoint.Lat,
                                !.currentLon = currentPoint.Lon,
                                !.currentAlt = currentPoint.Elevation]
           IN IF index < n - 1
                THEN LET nextPoint == s.replayPoints[index + 2]
                         distance == calculateDistance(currentPoint.Lat, currentPoint.Lon, nextPoint.Lat, nextPoint.Lon)
                         timeDiff == IF useTimestamps THEN nextPoint.Time - currentPoint.Time ELSE 1
                     IN IF timeDiff > 0
                          THEN [s1 EXCEPT !.currentSpeed = (distance * 194384) \div timeDiff,
                                          !.currentCourse = calculateBearing(currentPoint.Lat, currentPoint.Lon, nextPoint.Lat, nextPoint.Lon,
                                                                           nextPoint.LonHair - currentPoint.LonHair)]
                          ELSE s1
                ELSE s1

\* ------------------------------------------------------------------ the tick

\* update running the Motion Model after the Replay Engine.
updateBothEngines(s, t, satDraw, m) ==
  LET s1 == IF ~s.isLocked /\ t > s.lockTime THEN [s EXCEPT !.isLocked = TRUE] ELSE s
      s2 == IF s1.isLocked
              THEN IF s1.config.ReplayFile # ""
                     THEN updateAltitude(updatePosition(updateSpeedAndCourse(updateReplayPosition(s1, t),
                                                                              m.us, m.uc), t, m.ub),
                                         m.ua * (1 + s1.config.AltitudeJitter * 2))
                     ELSE updateAltitude(updatePosition(updateSpeedAndCourse(s1, m.us, m.uc), t, m.ub),
                                         m.ua * (1 + s1.config.AltitudeJitter * 2))
              ELSE s1
  IN [s2 EXCEPT !.satellites = updateSatellites(@, [i \in 1..Len(@) |-> satDraw])]

\* update() at instant t, between its Lock and its deferred Unlock.
update(s, t, satDraw, m) ==
  LET s1 == IF ~s.isLocked /\ t > s.lockTime THEN [s EXCEPT !.isLocked = TRUE] ELSE s
      s2 == IF s1.isLocked
              THEN IF s1.config.ReplayFile # ""
                     THEN updateReplayPosition(s1, t)
                     ELSE updateAltitude(updatePosition(updateSpeedAndCourse(s1, m.us, m.uc), t, m.ub),
                                         m.ua * (1 + s1.config.AltitudeJitter * 2))
              ELSE s1
  IN [s2 EXCEPT !.satellites = updateSatellites(@, [i \in 1..Len(@) |-> satDraw])]

\* Sentences as text are sequences of bytes.  a XOR b on bytes.
RECURSIVE BitXor(_, _)
BitXor(a, b) ==
  IF a = 0 /\ b = 0 THEN 0
  ELSE (((a % 2) + (b % 2)) % 2) + 2 * BitXor(a \div 2, b \div 2)

\* The digits of %X: "0123456789ABCDEF".
HexDigits == <<48, 49, 50, 51, 52, 53, 54, 55, 56, 57, 65, 66, 67, 68, 69, 70>>

\* The loop of calculateChecksum from byte i (from 0) of the sentence on.
RECURSIVE ChecksumFrom(_, _, _)
ChecksumFrom(sentence, i, checksum) ==
  IF i >= Len(sentence) THEN checksum
  ELSE ChecksumFrom(sentence, i + 1, BitXor(checksum, sentence[i + 1]))

\* calculateChecksum taking the first byte in as well.
calculateChecksumWithFirst(sentence) ==
  LET checksum == ChecksumFrom(sentence, 0, 0)
  IN <<HexDigits[(checksum \div 16) + 1], HexDigits[(checksum % 16) + 1]>>

\* calculateChecksum: the bytes after the first, XORed, as %02X.
calculateChecksum(sentence) ==
  LET checksum == ChecksumFrom(sentence, 1, 0)
  IN <<HexDigits[(checksum \div 16) + 1], HexDigits[(checksum % 16) + 1]>>

\* formatNMEA: "%s*%s\r\n" of the sentence and its checksum.
formatNMEA(sentence) == sentence \o <<42>> \o calculateChecksum(sentence) \o <<13, 10>>

\* Sentence sentenceNum of generateGSV: its three counts, the satellites it
\* carries and the number of empty slots (",,,,") after them.
GSVSentence(s, totalSentences, sentenceNum, padded) ==
  LET totalSats == Len(s.satellites)
      startIdx == (sentenceNum - 1) * 4
      endIdx == IF startIdx + 4 > totalSats THEN totalSats ELSE startIdx + 4
  IN [total |-> totalSentences, number |-> sentenceNum, totalSats |-> totalSats,
      sats |-> SubSeq(s.satellites, startIdx + 1, endIdx),
      pad |-> IF padded THEN 4 - (endIdx - startIdx) ELSE 0]

\* generateGSV with the number of sentences rounded down.
generateGSVRoundedDown(s) ==
  [k \in 1..(Len(s.satellites) \div 4) |-> GSVSentence(s, Len(s.satellites) \div 4, k, TRUE)]

\* generateGSV without the empty slots.
generateGSVUnpadded(s) ==
  [k \in 1..((Len(s.satellites) + 3) \div 4) |->
     GSVSentence(s, (Len(s.satellites) + 3) \div 4, k, FALSE)]

\* generateGSV: one sentence per four satellites, rounded up.
generateGSV(s) ==
  [k \in 1..((Len(s.satellites) + 3) \div 4) |->
     GSVSentence(s, (Len(s.satellites) + 3) \div 4, k, TRUE)]

\* The sentences outputNMEA builds, by type.
Sentences(s) ==
  IF s.isLocked
    THEN <<"GGA", "RMC", "GLL", "VTG", "GSA">>
         \o [k \in 1..Len(generateGSV(s)) |-> "GSV"] \o <<"ZDA">>
    ELSE <<"NoFixGGA", "NoFixRMC", "NoFixGLL", "NoFixVTG">>

\* The slice s.satellites as a value: the header of the array that
\* initializeSatellites made, which a copy of the slice shares.
SatellitesSlice(s) == [array |-> "s.satellites", len |-> Len(s.satellites)]

\* The satellites read through a slice header while the simulator is s.
Elements(slice, s) == SubSeq(s.satellites, 1, slice.len)

\* The Position of outputNMEA and GetStatus: the fields are copied, the
\* satellite list is the simulator's slice.
Position(s, timestamp) ==
  [Latitude |-> s.currentLat, Longitude |-> s.currentLon,
   Altitude |-> s.currentAlt, Speed |-> s.currentSpeed,
   Course |-> s.currentCourse, IsLocked |-> s.isLocked,
   Satellites |-> SatellitesSlice(s), Timestamp |-> timestamp]

\* The NMEAData outputNMEA hands to the callbacks.
NMEAData(s, sentences, timestamp) ==
  [Sentences |-> sentences, Position |-> Position(s, timestamp), Timestamp |-> timestamp]

\* The Status GetStatus returns at instant t.
Status(s, t) ==
  [Running |-> s.running, StartTime |-> s.startTime,
   ElapsedTime |-> (IF s.running THEN t - s.startTime ELSE 0),
   Position |-> Position(s, t), Config |-> s.config,
   ReplayIndex |-> s.replayIndex, ReplayTotal |-> Len(s.replayPoints),
   ReplayCompleted |-> s.replayCompleted]

\* ------------------------------------------------------------------ the run goroutine

Runs == 1..Len(runs)

At(g, pc) == runs[g].pc = pc

Goto(g, pc) == runs' = [runs EXCEPT ![g].pc = pc]

\* run(), up to its loop: the deferred Close is registered and the duration
\* timer is created from s.config.Duration, read without the lock.
RunInit(g) ==
  /\ At(g, "spawned")
  /\ runs' = [runs EXCEPT ![g].pc = "select",
                          ![g].timer = IF sim.config.Duration > 0 THEN now + sim.config.Duration ELSE 0 - 1]
  /\ UNCHANGED <<sim, mu, now, cancelled, tickers, callers, inflight, seen, randLeft, program>>

\* Entering the select: s.ctx.Done() and s.ticker.C are evaluated, without the
\* lock, and the goroutine waits on the channels they name.
SelectEnter(g) ==
  /\ At(g, "select")
  /\ runs' = [runs EXCEPT ![g].pc = "wait", ![g].ctx = sim.ctx, ![g].tick = sim.ticker]
  /\ UNCHANGED <<sim, mu, now, cancelled, tickers, callers, inflight, seen, randLeft, program>>

\* case <-s.ctx.Done(): return
CtxDone(g) ==
  /\ At(g, "wait")
  /\ runs[g].ctx \in cancelled
  /\ runs' = [runs EXCEPT ![g].pc = "exit", ![g].ctx = 0, ![g].tick = 0]
  /\ UNCHANGED <<sim, mu, now, cancelled, tickers, callers, inflight, seen, randLeft, program>>

\* case <-s.ticker.C: a tick is received from the channel waited on.
TickRecv(g) ==
  /\ At(g, "wait")
  /\ tickers[runs[g].tick].c > 0
  /\ sim.gpxWriter => Len(sim.gpxPoints) < MaxTrackPoints
  /\ tickers' = [tickers EXCEPT ![runs[g].tick].c = 0]
  /\ runs' = [runs EXCEPT ![g].pc = "update", ![g].ctx = 0, ![g].tick = 0]
  /\ UNCHANGED <<sim, mu, now, cancelled, callers, inflight, seen, randLeft, program>>

\* case <-durationChan: the duration timer is due.
DurationRecv(g) ==
  /\ At(g, "wait")
  /\ runs[g].timer >= 0 /\ now >= runs[g].timer
  /\ runs' = [runs EXCEPT ![g].pc = "stop", ![g].why = "duration", ![g].ctx = 0, ![g].tick = 0]
  /\ UNCHANGED <<sim, mu, now, cancelled, tickers, callers, inflight, seen, randLeft, program>>

\* s.mu.Lock() of update().
UpdateLock(g) ==
  /\ At(g, "update")
  /\ Lock(RunNames[g])
  /\ Goto(g, "updating")
  /\ UNCHANGED <<sim, now, cancelled, tickers, callers, inflight, seen, randLeft, program>>

\* update(), from the lock to the deferred Unlock.
Update(g) ==
  /\ At(g, "updating")
  /\ \E d \in SatDraws(randLeft), m \in MotionDraws(sim.config, randLeft) :
       sim' = update(sim, now, d, m)
  /\ randLeft' = IF randLeft > 0 THEN randLeft - 1 ELSE 0
  /\ Unlock(RunNames[g])
  /\ Goto(g, "encode")
  /\ UNCHANGED <<now, cancelled, tickers, callers, inflight, seen, program>>

\* outputNMEA calling the callbacks before it writes to the sink.
EncodeThenDispatch(g) ==
  /\ At(g, "encode")
  /\ runs' = [runs EXCEPT ![g].pc = "dispatch", ![g].timestamp = now,
                          ![g].sentences = Sentences(sim), ![g].written = <<>>]
  /\ UNCHANGED <<sim, mu, now, cancelled, tickers, callers, inflight, seen, randLeft, program>>

\* outputNMEA, the sentences: built from the state, without the lock.
Encode(g) ==
  /\ At(g, "encode")
  /\ runs' = [runs EXCEPT ![g].pc = "write", ![g].timestamp = now,
                          ![g].sentences = Sentences(sim), ![g].written = <<>>]
  /\ UNCHANGED <<sim, mu, now, cancelled, tickers, callers, inflight, seen, randLeft, program>>

\* outputNMEA, the sink: every sentence is written to s.nmeaWriter when one is set.
Write(g) ==
  /\ At(g, "write")
  /\ runs' = [runs EXCEPT ![g].pc = "dispatch",
                          ![g].written = IF sim.nmeaWriter THEN runs[g].sentences ELSE <<>>]
  /\ UNCHANGED <<sim, mu, now, cancelled, tickers, callers, inflight, seen, randLeft, program>>

\* The callback goroutines outputNMEA spawns: one per registered callback, each
\* with the NMEAData built from the state as it is now.
Spawned(g) ==
  [i \in 1..Len(sim.callbacks) |->
     [cb |-> sim.callbacks[i], data |-> NMEAData(sim, runs[g].sentences, runs[g].timestamp)]]

\* outputNMEA, the callbacks: `go callback(nmeaData)` for each.
Dispatch(g) ==
  /\ At(g, "dispatch")
  /\ Len(inflight) + Len(Spawned(g)) <= MaxInflight
  /\ inflight' = inflight \o Spawned(g)
  /\ runs' = [runs EXCEPT ![g].pc = "gpx", ![g].sentences = <<>>, ![g].written = <<>>, ![g].timestamp = 0]
  /\ UNCHANGED <<sim, mu, now, cancelled, tickers, callers, seen, randLeft, program>>

\* s.updateGPX(), without the lock.
UpdateGPX(g) ==
  /\ At(g, "gpx")
  /\ sim' = updateGPX(sim, now)
  /\ Goto(g, "check")
  /\ UNCHANGED <<mu, now, cancelled, tickers, callers, inflight, seen, randLeft, program>>

\* The completion check that ends the tick, read without the lock.
ReplayDone(s) == s.config.ReplayFile # "" /\ ~s.config.ReplayLoop /\ s.replayCompleted

Check(g) ==
  /\ At(g, "check")
  /\ IF ReplayDone(sim)
       THEN runs' = [runs EXCEPT ![g].pc = "stop", ![g].why = "replay"]
       ELSE Goto(g, "select")
  /\ UNCHANGED <<sim, mu, now, cancelled, tickers, callers, inflight, seen, randLeft, program>>

\* s.mu.Lock() of the Stop the run goroutine calls.
RunStopLock(g) ==
  /\ At(g, "stop")
  /\ Lock(RunNames[g])
  /\ Goto(g, "stopping")
  /\ UNCHANGED <<sim, now, cancelled, tickers, callers, inflight, seen, randLeft, program>>

\* Stop called by the run goroutine, returning with the lock still held.
RunStopKeepsLock(g) ==
  /\ At(g, "stopping")
  /\ StopEffects
  /\ runs' = [runs EXCEPT ![g].pc = "exit", ![g].ret = StopRet]
  /\ UNCHANGED <<mu, now, callers, inflight, seen, randLeft, program>>

\* Stop called by the run goroutine, from the lock to the deferred Unlock; the
\* goroutine then returns.
RunStop(g) ==
  /\ At(g, "stopping")
  /\ StopEffects
  /\ Unlock(RunNames[g])
  /\ runs' = [runs EXCEPT ![g].pc = "exit", ![g].ret = StopRet]
  /\ UNCHANGED <<now, callers, inflight, seen, randLeft, program>>

\* The deferred calls of run(): the duration timer is stopped and the GPX
\* writer, when there is one, is closed, without the lock.
RunExit(g) ==
  /\ At(g, "exit")
  /\ runs' = [runs EXCEPT ![g].pc = "done", ![g].timer = 0 - 1, ![g].ret = "", ![g].why = "",
                          ![g].sentences = <<>>, ![g].written = <<>>]
  /\ sim' = IF sim.gpxWriter THEN Close(sim) ELSE sim
  /\ UNCHANGED <<mu, now, cancelled, tickers, callers, inflight, seen, randLeft, program>>

\* ------------------------------------------------------------------ the environment

\* A running ticker sends a tick on its channel, which buffers one.
TickerFire(i) ==
  /\ i \in 1..Len(tickers)
  /\ ~tickers[i].stopped /\ tickers[i].c = 0
  /\ tickers' = [tickers EXCEPT ![i].c = 1]
  /\ UNCHANGED <<sim, mu, now, cancelled, runs, callers, inflight, seen, randLeft, program>>

\* The scheduler runs one of the spawned callback goroutines, whichever.
RemoveAt(q, k) == [i \in 1..(Len(q) - 1) |-> IF i < k THEN q[i] ELSE q[i + 1]]

Deliver(k) ==
  /\ k \in 1..Len(inflight)
  /\ seen' = [seen EXCEPT ![inflight[k].cb] = inflight[k].data.Timestamp]
  /\ inflight' = RemoveAt(inflight, k)
  /\ UNCHANGED <<sim, mu, now, cancelled, tickers, runs, callers, randLeft, program>>

\* Time passes.
AdvanceTime ==
  /\ now < program.horizon
  /\ now' = now + 1
  /\ UNCHANGED <<sim, mu, cancelled, tickers, runs, callers, inflight, seen, randLeft, program>>

\* ------------------------------------------------------------------ specification

CallerStep(c) ==
  \/ \E op \in {"Start", "Stop", "GetStatus", "IsRunning", "AddCallback", "SetNMEAWriter"} : Call(c, op)
  \/ \E newConfig \in UpdateConfigs : CallUpdateConfig(c, newConfig)
  \/ Acquire(c)
  \/ Start(c)
  \/ Stop(c)
  \/ IsRunning(c)
  \/ GetStatus(c)
  \/ AddCallback(c)
  \/ SetNMEAWriter(c)
  \/ UpdateConfig(c)
  \/ Return(c)

RunStep(g) ==
  \/ RunInit(g)
  \/ SelectEnter(g)
  \/ CtxDone(g)
  \/ TickRecv(g)
  \/ DurationRecv(g)
  \/ UpdateLock(g)
  \/ Update(g)
  \/ Encode(g)
  \/ Write(g)
  \/ Dispatch(g)
  \/ UpdateGPX(g)
  \/ Check(g)
  \/ RunStopLock(g)
  \/ RunStop(g)
  \/ RunExit(g)

Next ==
  \/ \E c \in Callers : CallerStep(c)
  \/ \E g \in Runs : RunStep(g)
  \/ \E i \in 1..MaxTickers : TickerFire(i)
  \/ \E k \in 1..MaxInflight : Deliver(k)
  \/ AdvanceTime

Spec == Init /\ [][Next]_vars

\* ------------------------------------------------------------------ fairness

\* The steps a thread takes while it holds the lock: each ends with the
\* deferred Unlock or RUnlock.
Body(c) ==
  \/ Start(c)
  \/ Stop(c)
  \/ IsRunning(c)
  \/ GetStatus(c)
  \/ AddCallback(c)
  \/ SetNMEAWriter(c)
  \/ UpdateConfig(c)

RunBody(g) == g \in Runs /\ (Update(g) \/ RunStop(g))

RunAcquire(g) == g \in Runs /\ RunStopLock(g)

\* The Go scheduler runs a runnable goroutine (weak fairness of the steps
\* taken with the lock held), and sync.RWMutex hands the lock to every
\* waiter (strong fairness of the acquisitions).  Nothing obliges the
\* embedding program to make a call, a ticker to fire or time to pass.
Fairness ==
  /\ \A c \in Callers : SF_vars(Acquire(c)) /\ WF_vars(Body(c))
  /\ \A g \in 1..MaxStarts : SF_vars(RunAcquire(g)) /\ WF_vars(RunBody(g))

FairSpec == Init /\ [][Next]_vars /\ Fairness

\* ------------------------------------------------------------------ validation

\* The values each validated field is probed with: the bounds of its range
\* and their neighbours outside it.
ProbeValues ==
  [Satellites |-> {3, 4, 12, 13}, Radius |-> {0 - 1, 0},
   Jitter |-> {0 - 1, 0, 10, 11}, AltitudeJitter |-> {0 - 1, 0, 10, 11},
   BaudRate |-> {0, 9600}, OutputRate |-> {0, 1}, Speed |-> {0 - 1, 0},
   Course |-> {0 - 1, 0, 359, 360}, ReplaySpeed |-> {0, 1}]

Probe(configs) ==
  UNION { { [c EXCEPT ![f] = v] : v \in ProbeValues[f] } : f \in DOMAIN ProbeValues, c \in configs }

\* The base configuration with up to two fields replaced by probe values.
ProbeConfigs == Probe(Probe({BaseConfig}))

\* A program that constructs simulators and hot-swaps configurations, and
\* never starts one.
ValidateInit ==
  /\ program = [configs |-> ProbeConfigs, ops |-> {"NewSimulator", "UpdateConfig"},
                starts |-> 0, randTicks |-> 0, horizon |-> 0]
  /\ sim = NewSimulator(BaseConfig, <<0, 0, 0>>)
  /\ mu = Unlocked
  /\ now = 0
  /\ cancelled = {}
  /\ tickers = <<>>
  /\ runs = <<>>
  /\ callers = [c \in Callers |-> Idle]
  /\ inflight = <<>>
  /\ seen = <<>>
  /\ randLeft = 0

\* NewSimulator(config) called by c: the error of Validate, the error of the
\* replay file's load, or a simulator.
CallNewSimulator(c, config) ==
  /\ callers[c].pc = "idle"
  /\ "NewSimulator" \in program.ops
  /\ IF Validate(config) # "nil"
       THEN /\ ReturnsWith(c, "NewSimulator", <<config>>, Validate(config))
            /\ UNCHANGED sim
       ELSE IF config.ReplayFile # "" /\ ReadGPXFile(config.ReplayFile).err # "nil"
       THEN /\ ReturnsWith(c, "NewSimulator", <<config>>, "failed to load replay file")
            /\ UNCHANGED sim
       ELSE /\ ReturnsWith(c, "NewSimulator", <<config>>, "nil")
            /\ sim' = NewSimulator(config, <<0, 0, 0>>)
  /\ UNCHANGED <<mu, now, cancelled, tickers, runs, inflight, seen, randLeft, program>>

ValidateNext ==
  \E c \in Callers :
    \/ \E config \in program.configs : CallNewSimulator(c, config)
    \/ \E newConfig \in program.configs : CallUpdateConfig(c, newConfig)
    \/ Acquire(c)
    \/ UpdateConfig(c)
    \/ Return(c)

ValidateSpec == ValidateInit /\ [][ValidateNext]_vars

\* ------------------------------------------------------------------ direct ticks

\* Replays of a timestamped and of an unordered track, looping or not, at
\* single and double speed.
ReplayTickConfigs ==
  { [BaseConfig EXCEPT !.ReplayFile = f, !.ReplayLoop = l, !.ReplaySpeed = v, !.TimeToLock = 0] :
      f \in {"long.gpx", "unordered.gpx", "repeat.gpx", "hair.gpx"}, l \in BOOLEAN, v \in {1, 2} }

\* Simulations with every number of GSV sentences.
SatelliteTickConfigs ==
  { [BaseConfig EXCEPT !.Satellites = n, !.TimeToLock = 0] : n \in {4, 5, 8, 9, 12} }

\* Motion at 10 knots inside a radius of 10 m or with no radius, without jitter
\* or with the highest.
MotionTickConfigs ==
  { [BaseConfig EXCEPT !.Radius = r, !.Jitter = j, !.Speed = 1000000, !.Course = c, !.TimeToLock = 0] :
      r \in {0, 10}, j \in {0, 10}, c \in {0, 330} }

\* A stationary simulator without jitter, at the origin of the tests and at
\* InexactLatitude.
StationaryTickConfigs ==
  { [BaseConfig EXCEPT !.Latitude = l, !.TimeToLock = 0] : l \in {0, InexactLatitude} }

TickConfigs ==
  ReplayTickConfigs \cup SatelliteTickConfigs \cup MotionTickConfigs \cup StationaryTickConfigs

\* A program that constructs a simulator and, as the package's tests do,
\* calls update() and outputNMEA() on it itself, without starting it.
TickInit ==
  /\ program = [configs |-> TickConfigs, ops |-> {"update", "outputNMEA"},
                starts |-> 0, randTicks |-> MaxRandTicks, horizon |-> MaxTickTime]
  /\ \E c \in program.configs : sim = NewSimulator(c, <<0, 0, 0>>)
  /\ mu = Unlocked
  /\ now = 0
  /\ cancelled = {}
  /\ tickers = <<>>
  /\ runs = <<>>
  /\ callers = [c \in Callers |-> Idle]
  /\ inflight = <<>>
  /\ seen = <<>>
  /\ randLeft = program.randTicks

\* s.update() called by c, from its Lock to its deferred Unlock.
CallUpdate(c) ==
  /\ callers[c].pc = "idle"
  /\ "update" \in program.ops
  /\ \E d \in SatDraws(randLeft), m \in MotionDraws(sim.config, randLeft) :
       sim' = update(sim, now, d, m)
  /\ randLeft' = IF randLeft > 0 THEN randLeft - 1 ELSE 0
  /\ UNCHANGED <<mu, now, cancelled, tickers, runs, callers, inflight, seen, program>>

\* s.outputNMEA() called by c: the caller keeps the sentences built.
CallOutputNMEA(c) ==
  /\ callers[c].pc \in {"idle", "returned"}
  /\ "outputNMEA" \in program.ops
  /\ ReturnsWith(c, "outputNMEA", Sentences(sim), "nil")
  /\ UNCHANGED <<sim, mu, now, cancelled, tickers, runs, inflight, seen, randLeft, program>>

TickNext ==
  \/ \E c \in Callers : CallUpdate(c)
  \/ \E c \in Callers : CallOutputNMEA(c)
  \/ \E c \in Callers : Return(c)
  \/ AdvanceTime

TickSpec == TickInit /\ [][TickNext]_vars

\* ------------------------------------------------------------------ seeded calls

\* The values the tests write into every satellite before they call
\* updateSatellites: inside, at, just outside and far outside the ranges.
SatelliteSeeds ==
  [Elevation : {0 - 40, 4, 5, 85, 86, 200},
   Azimuth : {0 - 725, 0 - 361, 0 - 1, 0, 359, 360, 1000},
   SNR : {0 - 10, 14, 15, 55, 56, 90}]

\* Values inside the ranges, which no step of one update takes to a clamp,
\* with the azimuths next to the wrap.
InsideSeeds ==
  [Elevation : {45}, Azimuth : {0, 180, 359}, SNR : {35}]

\* Starting altitudes near sea level, above it and far below it, without
\* altitude jitter, with some and with the highest.
AltitudeConfigs ==
  { [BaseConfig EXCEPT !.Altitude = a, !.AltitudeJitter = j, !.TimeToLock = 0] :
      a \in {10, 200, 0 - 600}, j \in {0, 5, 10} }

\* The altitudes the tests write before they call updateAltitude, added to
\* the starting altitude itself.
AltitudeSeeds == {0 - 60, 80, 750}

\* The sentences formatNMEA is given: those of the checksum tests ("$A",
\* the no-fix "$GPVTG,,,,,,,,,N" and "$GPGGA,,,,,,,,,,,,,,,"), and every "$"
\* followed by up to three of the bytes "," "1" "G" "N".
NMEAInputs ==
  { <<36, 65>>,
    <<36, 71, 80, 86, 84, 71, 44, 44, 44, 44, 44, 44, 44, 44, 44, 78>>,
    <<36, 71, 80, 71, 71, 65, 44, 44, 44, 44, 44, 44, 44, 44, 44, 44, 44, 44, 44, 44, 44>> }
  \cup UNION { { <<36>> \o [i \in 1..n |-> f[i]] : f \in [1..n -> {44, 49, 71, 78}] } : n \in 0..3 }

\* The instants a test writes into lastUpdateTime before it calls
\* updatePosition at instant 0: a second ago, now, and a second from now.
LastUpdateSeeds == {0 - 1, 0, 1}

\* The positions, in metres north of the centre, a test calls updatePosition
\* at: the centre, and a point outside every radius of MotionTickConfigs.
LatitudeSeeds == {0, 50}

\* The timestamps of the points a test writes into replayPoints, and the
\* sequences of at most MaxPoints such points.
TimeSeeds == {100, 101, 102}

PointSeeds ==
  UNION { [1..n -> { [Lat |-> 10, Lon |-> 0, LonHair |-> 0, Elevation |-> 50, Time |-> time] :
                     time \in TimeSeeds }] : n \in 0..MaxPoints }

\* A replay speed that Validate accepts and that is above Second.
FastReplaySpeed == 2 * Second

\* The replay speeds a test writes into the configuration of a constructed
\* simulator, which Validate would refuse.
NonPositiveSpeeds == {0 - 1, 0}

\* The replays updateReplayPosition is called on directly: tracks of three,
\* two and one point that progress by index, at speeds up to FastReplaySpeed,
\* and two tracks that progress by timestamp.
ReplaySeedConfigs ==
  { [BaseConfig EXCEPT !.ReplayFile = f, !.ReplayLoop = l, !.ReplaySpeed = v, !.TimeToLock = 0] :
      f \in {"shuffled.gpx", "unordered.gpx", "single.gpx"}, l \in BOOLEAN, v \in {1, 2, 3, FastReplaySpeed} }
  \cup
  { [BaseConfig EXCEPT !.ReplayFile = f, !.ReplayLoop = l, !.ReplaySpeed = v, !.TimeToLock = 0] :
      f \in {"long.gpx", "repeat.gpx"}, l \in BOOLEAN, v \in {1, 2, 3} }

\* The configurations of the replay tests, one for each file.
LoadConfigs ==
  { [BaseConfig EXCEPT !.ReplayFile = f, !.TimeToLock = 0] : f \in GPXFileNames }

\* The programs of the tests that write the simulator's fields and call one of
\* its methods themselves.
SeedPrograms ==
  { [configs |-> {[BaseConfig EXCEPT !.TimeToLock = 0]}, ops |-> {"updateSatellites"},
     starts |-> 0, randTicks |-> MaxSeedCalls, horizon |-> 0],
    [configs |-> AltitudeConfigs, ops |-> {"updateAltitude"},
     starts |-> 0, randTicks |-> MaxSeedCalls, horizon |-> 0],
    [configs |-> {[BaseConfig EXCEPT !.TimeToLock = 0]}, ops |-> {"generateGSV"},
     starts |-> 0, randTicks |-> 0, horizon |-> 0],
    [configs |-> {[BaseConfig EXCEPT !.TimeToLock = 0]}, ops |-> {"formatNMEA"},
     starts |-> 0, randTicks |-> 0, horizon |-> 0],
    [configs |-> {[BaseConfig EXCEPT !.TimeToLock = 0]}, ops |-> {"ReadGPXFile", "NewSimulator"},
     starts |-> 0, randTicks |-> 0, horizon |-> 0],
    [configs |-> {[BaseConfig EXCEPT !.TimeToLock = 0]}, ops |-> {"GetStatus", "updateSatellites"},
     starts |-> 0, randTicks |-> MaxSeedCalls, horizon |-> 0],
    [configs |-> MotionTickConfigs, ops |-> {"updatePosition"},
     starts |-> 0, randTicks |-> MaxSeedCalls, horizon |-> 0],
    [configs |-> ReplaySeedConfigs, ops |-> {"updateReplayPosition"},
     starts |-> 0, randTicks |-> MaxSeedCalls, horizon |-> 0],
    [configs |-> {[BaseConfig EXCEPT !.TimeToLock = 0]}, ops |-> {"hasSequentialTimestamps"},
     starts |-> 0, randTicks |-> 0, horizon |-> 0],
    [configs |-> {[BaseConfig EXCEPT !.TimeToLock = 0]}, ops |-> {"updateSatellites", "rand.Intn"},
     starts |-> 0, randTicks |-> 1, horizon |-> 0] }

\* The simulator after the writes of the test.
Seeded(s, ops) ==
  IF "updateSatellites" \in ops
    THEN { [s EXCEPT !.satellites = [i \in 1..Len(@) |->
                                      [@[i] EXCEPT !.Elevation = seed.Elevation,
                                                   !.Azimuth = seed.Azimuth,
                                                   !.SNR = seed.SNR]]] :
             seed \in IF "rand.Intn" \in ops THEN InsideSeeds ELSE SatelliteSeeds }
    ELSE IF "updateAltitude" \in ops
    THEN { [s EXCEPT !.currentAlt = a] : a \in AltitudeSeeds \cup {s.config.Altitude} }
    ELSE IF "hasSequentialTimestamps" \in ops
    THEN { [s EXCEPT !.replayPoints = points] : points \in PointSeeds }
    ELSE IF "updateReplayPosition" \in ops
    THEN { [s EXCEPT !.isLocked = TRUE, !.replayStartTime = 0 - e, !.config.ReplaySpeed = v] :
             e \in 0..MaxElapsed, v \in {s.config.ReplaySpeed} \cup NonPositiveSpeeds }
    ELSE IF "updatePosition" \in ops
    THEN { [s EXCEPT !.isLocked = TRUE, !.lastUpdateTime = last, !.currentLat = lat] :
             last \in LastUpdateSeeds, lat \in LatitudeSeeds }
    ELSE IF "generateGSV" \in ops
    THEN { [s EXCEPT !.satellites = initializeSatellites(n, [i \in 1..n |-> <<i, 30 * i, i>>])] :
             n \in 0..MaxSatellites }
    ELSE {s}

SeedInit ==
  /\ program \in SeedPrograms
  /\ \E c \in program.configs : sim \in Seeded(NewSimulator(c, <<0, 0, 0>>), program.ops)
  /\ mu = Unlocked
  /\ now = 0
  /\ cancelled = {}
  /\ tickers = <<>>
  /\ runs = <<>>
  /\ callers = [c \in Callers |-> Idle]
  /\ inflight = <<>>
  /\ seen = <<>>
  /\ randLeft = program.randTicks

\* s.updatePosition() called by c, at most MaxSeedCalls times: the caller
\* keeps the time since the last update and the position the call found.
CallUpdatePosition(c) ==
  /\ callers[c].pc \in {"idle", "returned"}
  /\ "updatePosition" \in program.ops
  /\ randLeft > 0
  /\ \E m \in MotionDraws(sim.config, randLeft) : sim' = updatePosition(sim, now, m.ub)
  /\ randLeft' = randLeft - 1
  /\ ReturnsWith(c, "updatePosition",
                 <<now - sim.lastUpdateTime, sim.currentLat, sim.currentLon, sim.currentLatUlps>>, "")
  /\ UNCHANGED <<mu, now, cancelled, tickers, runs, inflight, seen, program>>

\* s.updateReplayPosition() called by c, at most MaxSeedCalls times: the
\* caller keeps the time since the replay start and the replay speed the call
\* found, and a panic of the call ends it.
CallUpdateReplayPosition(c) ==
  /\ callers[c].pc \in {"idle", "returned"}
  /\ callers[c].ret = ""
  /\ "updateReplayPosition" \in program.ops
  /\ randLeft > 0
  /\ IF updateReplayPositionPanics(sim)
       THEN /\ sim' = sim
            /\ ReturnsWith(c, "updateReplayPosition", <<now - sim.replayStartTime, sim.config.ReplaySpeed>>,
                           "panic: runtime error: integer divide by zero")
       ELSE /\ sim' = updateReplayPosition(sim, now)
            /\ ReturnsWith(c, "updateReplayPosition", <<now - sim.replayStartTime, sim.config.ReplaySpeed>>, "")
  /\ randLeft' = randLeft - 1
  /\ UNCHANGED <<mu, now, cancelled, tickers, runs, inflight, seen, program>>

\* s.hasSequentialTimestamps() called by c, which keeps the points and the
\* result.
CallHasSequentialTimestamps(c) ==
  /\ callers[c].pc = "idle"
  /\ "hasSequentialTimestamps" \in program.ops
  /\ ReturnsWith(c, "hasSequentialTimestamps", <<sim.replayPoints>>,
                 IF hasSequentialTimestamps(sim.replayPoints) THEN "true" ELSE "false")
  /\ UNCHANGED <<sim, mu, now, cancelled, tickers, runs, inflight, seen, randLeft, program>>

\* s.GetStatus() called by c, which keeps the Status from then on.
CallGetStatus(c) ==
  /\ callers[c].pc = "idle"
  /\ "GetStatus" \in program.ops
  /\ ReturnsWith(c, "GetStatus", <<Status(sim, now)>>, "")
  /\ UNCHANGED <<sim, mu, now, cancelled, tickers, runs, inflight, seen, randLeft, program>>

\* s.updateSatellites() called by c, at most MaxSeedCalls times; what c has
\* kept from an earlier call stays with it.
CallUpdateSatellites(c) ==
  /\ callers[c].pc \in {"idle", "returned"}
  /\ "updateSatellites" \in program.ops
  /\ randLeft > 0
  /\ \E d \in IF "rand.Intn" \in program.ops THEN EverySatDraw ELSE SatDraws(randLeft) :
       sim' = [sim EXCEPT !.satellites = updateSatellites(@, [i \in 1..Len(@) |-> d])]
  /\ randLeft' = randLeft - 1
  /\ ReturnsWith(c, "updateSatellites", callers[c].arg, "")
  /\ UNCHANGED <<mu, now, cancelled, tickers, runs, inflight, seen, program>>

\* s.updateAltitude() called by c, at most MaxSeedCalls times.
CallUpdateAltitude(c) ==
  /\ callers[c].pc \in {"idle", "returned"}
  /\ "updateAltitude" \in program.ops
  /\ randLeft > 0
  /\ \E m \in MotionDraws(sim.config, randLeft) :
       sim' = updateAltitude(sim, m.ua * (1 + sim.config.AltitudeJitter * 2))
  /\ randLeft' = randLeft - 1
  /\ ReturnsWith(c, "updateAltitude", <<>>, "")
  /\ UNCHANGED <<mu, now, cancelled, tickers, runs, inflight, seen, program>>

\* s.generateGSV() called by c: the caller keeps the sentences.
CallGenerateGSV(c) ==
  /\ callers[c].pc = "idle"
  /\ "generateGSV" \in program.ops
  /\ ReturnsWith(c, "generateGSV", generateGSV(sim), "")
  /\ UNCHANGED <<sim, mu, now, cancelled, tickers, runs, inflight, seen, randLeft, program>>

\* formatNMEA(sentence) called by c: the caller keeps the sentence and the
\* result.
CallFormatNMEA(c) ==
  /\ callers[c].pc = "idle"
  /\ "formatNMEA" \in program.ops
  /\ \E sentence \in NMEAInputs :
       ReturnsWith(c, "formatNMEA", <<sentence, formatNMEA(sentence)>>, "")
  /\ UNCHANGED <<sim, mu, now, cancelled, tickers, runs, inflight, seen, randLeft, program>>

\* ReadGPXFile(filename) called by c: the caller keeps the file name, the
\* points and the error.
CallReadGPXFile(c) ==
  /\ callers[c].pc = "idle"
  /\ "ReadGPXFile" \in program.ops
  /\ \E filename \in GPXFileNames :
       ReturnsWith(c, "ReadGPXFile", <<filename, ReadGPXFile(filename).points>>,
                   ReadGPXFile(filename).err)
  /\ UNCHANGED <<sim, mu, now, cancelled, tickers, runs, inflight, seen, randLeft, program>>

SeedNext ==
  \/ \E c \in Callers : CallUpdateSatellites(c)
  \/ \E c \in Callers : CallReadGPXFile(c)
  \/ \E c \in Callers : CallGetStatus(c)
  \/ \E c \in Callers : CallUpdatePosition(c)
  \/ \E c \in Callers : CallUpdateReplayPosition(c)
  \/ \E c \in Callers : CallHasSequentialTimestamps(c)
  \/ \E c \in Callers, config \in LoadConfigs : CallNewSimulator(c, config)
  \/ \E c \in Callers : CallFormatNMEA(c)
  \/ \E c \in Callers : CallGenerateGSV(c)
  \/ \E c \in Callers : CallUpdateAltitude(c)
  \/ \E c \in Callers : Return(c)

SeedSpec == SeedInit /\ [][SeedNext]_vars

\* ------------------------------------------------------------------ properties

\* C1: a Start call returns ErrSimulatorAlreadyRunning when the simulator is
\* running and nil otherwise, and leaves it running either way; a Stop call
\* returns ErrSimulatorNotRunning when it is not running and nil otherwise,
\* and leaves it not running either way; the running flag changes in no
\* other step than a successful Start or Stop.
C1_Lifecycle ==
  [][/\ \A c \in Callers :
          (callers[c].pc = "held" /\ callers[c].op \in {"Start", "Stop"} /\ callers'[c].pc = "returned")
          => IF callers[c].op = "Start"
               THEN /\ callers'[c].ret = (IF sim.running THEN "ErrSimulatorAlreadyRunning" ELSE "nil")
                    /\ sim'.running
               ELSE /\ callers'[c].ret = (IF sim.running THEN "nil" ELSE "ErrSimulatorNotRunning")
                    /\ ~sim'.running
     /\ (sim'.running # sim.running)
          => \/ \E c \in Callers : /\ callers[c].pc = "held" /\ callers[c].op \in {"Start", "Stop"}
                                   /\ callers'[c].pc = "returned" /\ callers'[c].ret = "nil"
             \/ \E g \in Runs : runs[g].pc = "stopping" /\ runs'[g].pc = "exit"
    ]_vars

\* A restart: the second successful Start, after a Stop.
C1_Restarted ==
  \E c \in Callers :
    /\ callers[c].pc = "returned" /\ callers[c].op = "Start" /\ callers[c].ret = "nil"
    /\ Len(runs) = 2 /\ sim.running /\ Cardinality(cancelled) = 1

\* C2: a run goroutine whose next step of the tick reads or writes the
\* simulator's state (encoding, sink write, fan-out, track recording,
\* completion check) holds the simulator's lock.
C2_TickAccessesUnderLock ==
  \A g \in Runs :
    runs[g].pc \in {"encode", "write", "dispatch", "gpx", "check"} => mu.w = RunNames[g]

\* C3: while the simulator is running, the run goroutine of the current run
\* that waits in its select does not wait on a ticker that is stopped and has
\* nothing buffered (no further tick would reach it).
C3_TicksContinueAfterRateChange ==
  \A g \in Runs :
    (runs[g].pc = "wait" /\ sim.running /\ runs[g].ctx = sim.ctx)
    => ~(tickers[runs[g].tick].stopped /\ tickers[runs[g].tick].c = 0)

\* C4: the satellite list is as long as the current config's Satellites says
\* and its i-th satellite (from 1) has ID i.
C4_SatelliteCountMatchesConfig ==
  /\ Len(sim.satellites) = sim.config.Satellites
  /\ \A i \in 1..Len(sim.satellites) : sim.satellites[i].ID = i

\* The nine configuration rules.
ConfigRules(c) ==
  /\ c.Satellites >= 4 /\ c.Satellites <= 12
  /\ c.Radius >= 0
  /\ c.Jitter >= 0 /\ c.Jitter <= 10
  /\ c.AltitudeJitter >= 0 /\ c.AltitudeJitter <= 10
  /\ c.BaudRate > 0
  /\ c.OutputRate > 0
  /\ c.Speed >= 0
  /\ c.Course >= 0 /\ c.Course < 360
  /\ c.ReplaySpeed > 0

\* C5: NewSimulator and UpdateConfig return an error exactly for the
\* configurations that violate one of the nine rules, and UpdateConfig goes
\* on to store none of those.
C5_ErrorIffRuleViolated ==
  \A c \in Callers :
    /\ (callers[c].pc = "returned" /\ callers[c].op \in {"NewSimulator", "UpdateConfig"})
       => (callers[c].ret = "nil" <=> ConfigRules(callers[c].arg[1]))
    /\ (callers[c].pc \in {"lock", "held"} /\ callers[c].op = "UpdateConfig")
       => ConfigRules(callers[c].arg[1])

\* C6: an UpdateConfig call whose config fails validation returns Validate's
\* error in a step that changes nothing but the caller, and no such config
\* gets as far as the lock.
C6_InvalidUpdateChangesNothing ==
  [][\A c \in Callers :
       /\ (callers'[c].op = "UpdateConfig" /\ callers'[c].pc = "returned"
           /\ callers[c].pc # "returned" /\ Validate(callers'[c].arg[1]) # "nil")
          => /\ callers'[c].ret = Validate(callers'[c].arg[1])
             /\ UNCHANGED <<sim, mu, now, cancelled, tickers, runs, inflight, seen, randLeft, program>>
       /\ (callers'[c].op = "UpdateConfig" /\ callers'[c].pc \in {"lock", "held"})
          => Validate(callers'[c].arg[1]) = "nil"
    ]_vars

\* An invalid UpdateConfig has returned its error on a running simulator.
C6_RejectedWhileRunning ==
  \E c \in Callers :
    /\ callers[c].pc = "returned" /\ callers[c].op = "UpdateConfig"
    /\ callers[c].ret = "ErrInvalidSatelliteCount"
    /\ sim.running

\* C7: a run goroutine stops the running simulator for the duration deadline
\* only when the configured Duration is positive and has passed since the
\* Start of the run it stops, and otherwise only when a non-looping replay
\* has completed.
C7_SelfStopOnlyWhenDue ==
  [][\A g \in Runs :
       (runs[g].pc = "stopping" /\ runs'[g].pc = "exit" /\ sim.running)
       => IF runs[g].why = "duration"
            THEN sim.config.Duration > 0 /\ now >= sim.startTime + sim.config.Duration
            ELSE ReplayDone(sim)
    ]_vars

\* C8: every control-surface call that has asked for the lock returns, and so
\* does the Stop a run goroutine calls.
C8_CallsReturn ==
  /\ \A c \in Callers : (callers[c].pc \in {"lock", "held"}) ~> (callers[c].pc = "returned")
  /\ \A g \in 1..MaxStarts :
       (g \in Runs /\ runs[g].pc \in {"stop", "stopping"}) ~> (g \in Runs /\ runs[g].pc \in {"exit", "done"})

\* A caller's Stop or GetStatus has returned while a run goroutine, which
\* stopped the simulator itself, is still on its way out.
C8_ReturnedDuringSelfStop ==
  \E c \in Callers : \E g \in Runs :
    /\ callers[c].pc = "returned" /\ callers[c].op \in {"Stop", "GetStatus"}
    /\ callers[c].ret \in {"ErrSimulatorNotRunning", "false"}
    /\ runs[g].pc = "exit" /\ runs[g].why # "" /\ runs[g].ret = "nil"

\* C9: the timestamps of the data a callback is run with never go back.
C9_ObserverSeesTickOrder ==
  [][\A i \in 1..Len(seen) : seen'[i] >= seen[i]]_vars

\* C10: a tick encodes after update() and from the state it left, writes to
\* the sink after encoding (all the sentences, when a sink is set), spawns
\* the callbacks after the write, one per registered callback, each with the
\* tick's sentences and timestamp, without running any of them, and records
\* the track point after that.
C10_TickOrder ==
  [][\A g \in Runs :
       runs'[g].pc # runs[g].pc =>
         /\ runs'[g].pc = "encode" => runs[g].pc = "updating" /\ mu.w = RunNames[g]
         /\ runs'[g].pc = "write" => runs[g].pc = "encode" /\ runs'[g].sentences = Sentences(sim)
         /\ runs'[g].pc = "dispatch"
              => /\ runs[g].pc = "write"
                 /\ sim.nmeaWriter => runs'[g].written = runs[g].sentences
                 /\ inflight' = inflight
         /\ runs'[g].pc = "gpx"
              => /\ runs[g].pc = "dispatch"
                 /\ Len(inflight') = Len(inflight) + Len(sim.callbacks)
                 /\ SubSeq(inflight', 1, Len(inflight)) = inflight
                 /\ \A i \in 1..Len(sim.callbacks) :
                      LET spawned == inflight'[Len(inflight) + i]
                      IN /\ spawned.cb = sim.callbacks[i]
                         /\ spawned.data.Sentences = runs[g].sentences
                         /\ spawned.data.Timestamp = runs[g].timestamp
                         /\ spawned.data.Position.Latitude = sim.currentLat
                 /\ seen' = seen
                 /\ sim' = sim
         /\ runs'[g].pc = "check" => runs[g].pc = "gpx" /\ sim' = updateGPX(sim, now)
    ]_vars

\* A tick wrote its sentences to the sink and spawned a callback that has not
\* run yet, and is about to record the track point.
C10_DispatchedAfterWrite ==
  \E g \in Runs :
    /\ runs[g].pc = "gpx"
    /\ sim.nmeaWriter
    /\ Len(inflight) > 0
    /\ Len(inflight[Len(inflight)].data.Sentences) >= 4
    /\ seen[inflight[Len(inflight)].cb] < inflight[Len(inflight)].data.Timestamp

\* C11: a tick of a running simulator leaves it locked when more than
\* TimeToLock has passed since the Start of the current run, and unlocked
\* when less than TimeToLock has passed since that Start.
C11_LockFollowsTimeToLock ==
  [][\A g \in Runs :
       (runs[g].pc = "updating" /\ runs'[g].pc = "encode" /\ sim.running)
       => /\ now > sim.startTime + sim.config.TimeToLock => sim'.isLocked
          /\ now < sim.startTime + sim.config.TimeToLock => ~sim'.isLocked
    ]_vars

UpdateStep == now' = now /\ callers' = callers

\* C13: the replay cursor is in [0, len(points)] and is len(points) only
\* when the replay is marked completed.
C13_ReplayIndexInRange ==
  /\ sim.replayIndex >= 0 /\ sim.replayIndex <= Len(sim.replayPoints)
  /\ (sim.config.ReplayFile # "" /\ sim.replayIndex = Len(sim.replayPoints)) => sim.replayCompleted

\* C14: on a track of at least two points with non-decreasing timestamps, a
\* replay tick at elapsed time t since the replay start reference marks the
\* replay completed when timestamp[0] + t*ReplaySpeed is after the last
\* timestamp, and otherwise sets the cursor to the greatest index whose
\* timestamp is not after it and the position to that point, without
\* marking the replay completed.
C14_TimeBasedCursor ==
  [][(/\ UpdateStep /\ sim'.isLocked /\ sim.config.ReplayFile # ""
      /\ Len(sim.replayPoints) >= 2
      /\ \A i \in 1..(Len(sim.replayPoints) - 1) :
            sim.replayPoints[i].Time <= sim.replayPoints[i + 1].Time)
     => LET pts == sim.replayPoints
            n == Len(pts)
            target == pts[1].Time + (now - sim.replayStartTime) * sim.config.ReplaySpeed
        IN IF target > pts[n].Time
             THEN sim'.replayCompleted
             ELSE LET i == CHOOSE j \in 1..n :
                              pts[j].Time <= target /\ \A k \in (j + 1)..n : pts[k].Time > target
                  IN /\ sim'.replayIndex = i - 1
                     /\ sim'.currentLat = pts[i].Lat
                     /\ sim'.currentLon = pts[i].Lon
                     /\ sim'.currentAlt = pts[i].Elevation
                     /\ sim'.replayCompleted = sim.replayCompleted
    ]_vars

\* A tick at the very last timestamp: the cursor is the last index and the
\* replay is not completed.
C14_AtLastTimestamp ==
  /\ sim.config.ReplayFile = "long.gpx"
  /\ sim.replayIndex = 2 /\ sim.currentLon = 30 /\ sim.currentAlt = 52
  /\ ~sim.replayCompleted

\* C15: without looping, a replay tick that leaves the replay completed does
\* not change latitude, longitude or altitude, and the position it leaves is
\* that of the last track point.
C15_CompletedAtLastPoint ==
  [][(/\ UpdateStep /\ sim.config.ReplayFile # "" /\ ~sim.config.ReplayLoop
      /\ sim'.replayCompleted)
     => LET last == sim.replayPoints[Len(sim.replayPoints)]
        IN /\ sim'.currentLat = sim.currentLat
           /\ sim'.currentLon = sim.currentLon
           /\ sim'.currentAlt = sim.currentAlt
           /\ sim'.currentLat = last.Lat
           /\ sim'.currentLon = last.Lon
           /\ sim'.currentAlt = last.Elevation
    ]_vars

\* C16: with looping, on a timestamped track, a replay tick timed from the
\* replay start reference that finds the end of the track passed resets the
\* cursor to 0 and the reference to the instant of the tick; every other
\* tick sets the cursor by the time elapsed since the reference.
C16_LoopRestartsFromZero ==
  [][(/\ UpdateStep /\ sim'.isLocked /\ sim.config.ReplayFile # "" /\ sim.config.ReplayLoop
      /\ hasSequentialTimestamps(sim.replayPoints))
     => LET pts == sim.replayPoints
            elapsed == now - sim.replayStartTime
            target == pts[1].Time + elapsed * sim.config.ReplaySpeed
        IN IF target > pts[Len(pts)].Time
             THEN sim'.replayIndex = 0 /\ sim'.replayStartTime = now
             ELSE /\ sim'.replayStartTime = sim.replayStartTime
                  /\ pts[sim'.replayIndex + 1].Time <= target
                  /\ sim'.replayIndex + 1 < Len(pts) => pts[sim'.replayIndex + 2].Time > target
    ]_vars

\* A looping replay has wrapped and its cursor has advanced again.
C16_SecondPass ==
  /\ sim.config.ReplayLoop /\ hasSequentialTimestamps(sim.replayPoints)
  /\ sim.replayStartTime > 0
  /\ sim.replayIndex = 1 /\ sim.currentLat = 20
  /\ now - sim.replayStartTime < 2

\* C17: with looping the replay is never marked completed, and the
\* completion check of the run loop never finds the replay done.
C17_LoopNeverCompleted ==
  (sim.config.ReplayFile # "" /\ sim.config.ReplayLoop)
  => ~sim.replayCompleted /\ ~ReplayDone(sim)

\* C18: with a radius R > 0 the position is never further from the
\* configured origin than R * (1 + e); e is taken as 1, the loosest bound
\* the tests allow.
C18_WithinRadius ==
  (sim.config.ReplayFile = "" /\ sim.config.Radius > 0)
  => distanceFromCenter(sim, sim.currentLat, sim.currentLon) <= 2 * sim.config.Radius

\* C19: with Radius = 0 a motion tick after a positive time commits the
\* position reached from the previous one along the jittered course at the
\* jittered speed: the course carries no bounce and the position is not
\* moved to a boundary.
C19_ZeroRadiusUnconstrained ==
  [][(/\ UpdateStep /\ sim'.isLocked /\ sim.config.ReplayFile = ""
      /\ sim.config.Radius = 0 /\ now > sim.lastUpdateTime)
     => LET distance == ((sim'.currentSpeed \div 100000) * 514444 * (now - sim.lastUpdateTime)) \div 1000000
        IN \E uc \in {0 - 1, 0, 1} :
             LET course == NormalizeCourse(sim.config.Course + uc * CourseVariation(sim.config.Jitter))
             IN /\ sim'.currentCourse = course
                /\ <<sim'.currentLat, sim'.currentLon>> =
                     calculateNewPosition(sim.currentLat, sim.currentLon, distance, course)
    ]_vars

\* C20: in every state the current course is in [0, 360) and the current
\* speed is not negative.
C20_CourseAndSpeedInRange ==
  /\ sim.currentCourse >= 0 /\ sim.currentCourse < 360
  /\ sim.currentSpeed >= 0

\* C21: after a call of updateSatellites every satellite has its elevation
\* in [5, 85], its azimuth in [0, 360) and its SNR in [15, 55], whatever the
\* values were before.
C21_SatellitesInRange ==
  \A c \in Callers :
    (callers[c].pc = "returned" /\ callers[c].op = "updateSatellites")
    => \A i \in 1..Len(sim.satellites) :
         /\ sim.satellites[i].Elevation >= 5 /\ sim.satellites[i].Elevation <= 85
         /\ sim.satellites[i].Azimuth >= 0 /\ sim.satellites[i].Azimuth < 360
         /\ sim.satellites[i].SNR >= 15 /\ sim.satellites[i].SNR <= 55

\* C22: with Jitter = 0, Speed = 0 and Radius = 100, without a replay file,
\* the current latitude and longitude are exactly the configured origin and
\* the current speed and course are the configured ones, in every state.
C22_ZeroJitterZeroDrift ==
  (/\ sim.config.ReplayFile = "" /\ sim.config.Jitter = 0
   /\ sim.config.Speed = 0 /\ sim.config.Radius = 100)
  => /\ sim.currentLat = sim.config.Latitude /\ sim.currentLatUlps = 0
     /\ sim.currentLon = sim.config.Longitude
     /\ sim.currentSpeed = sim.config.Speed
     /\ sim.currentCourse = sim.config.Course

\* C23: a call of updateAltitude leaves the altitude unchanged when
\* AltitudeJitter is 0; otherwise it leaves it in
\* [max(Altitude - 100, -50), Altitude + 500], whatever it was before, and
\* where the result is not one of the two ends it differs from the altitude
\* before by at most 1 + 20 * AltitudeJitter.
C23_AltitudeModel ==
  [][(randLeft' # randLeft /\ "updateAltitude" \in program.ops)
     => LET lo == IF sim.config.Altitude - 100 > 0 - 50 THEN sim.config.Altitude - 100 ELSE 0 - 50
            hi == sim.config.Altitude + 500
        IN IF sim.config.AltitudeJitter = 0
             THEN sim'.currentAlt = sim.currentAlt
             ELSE /\ sim'.currentAlt >= lo /\ sim'.currentAlt <= hi
                  /\ sim'.currentAlt \notin {lo, hi}
                       => Abs(sim'.currentAlt - sim.currentAlt) <= 1 + 2 * sim.config.AltitudeJitter
    ]_vars

\* C24: for a list of n satellites generateGSV returns ceil(n / 4)
\* sentences; sentence k declares ceil(n / 4) sentences, number k and n
\* satellites, carries satellites 4(k-1)+1 .. min(4k, n) in list order and
\* has empty slots up to four.
C24_GSVLayout ==
  \A c \in Callers :
    (callers[c].pc = "returned" /\ callers[c].op = "generateGSV")
    => LET g == callers[c].arg
           n == Len(sim.satellites)
           total == CHOOSE j \in 0..n : 4 * j >= n /\ 4 * (j - 1) < n
       IN /\ Len(g) = total
          /\ \A k \in 1..total :
                /\ g[k].total = total /\ g[k].number = k /\ g[k].totalSats = n
                /\ g[k].sats = [i \in 1..((IF 4 * k < n THEN 4 * k ELSE n) - 4 * (k - 1)) |->
                                 sim.satellites[4 * (k - 1) + i]]
                /\ Len(g[k].sats) + g[k].pad = 4

\* Ten satellites: three sentences, the last with two satellites and two
\* empty slots.
C24_TenSatellites ==
  \E c \in Callers :
    /\ callers[c].pc = "returned" /\ callers[c].op = "generateGSV"
    /\ Len(sim.satellites) = 10
    /\ Len(callers[c].arg) = 3
    /\ callers[c].arg[3].pad = 2

\* C25: formatNMEA(s) is s, "*", two uppercase hexadecimal digits and CR LF,
\* the digits being those of the XOR of the bytes of s after the leading
\* "$" (bit k of their value is the parity of the bytes with bit k set); the
\* result has exactly one "*", the one before the digits.
C25_ChecksumFormat ==
  \A c \in Callers :
    (callers[c].pc = "returned" /\ callers[c].op = "formatNMEA")
    => LET s == callers[c].arg[1]
           out == callers[c].arg[2]
           n == Len(s)
           Value(d) == CHOOSE v \in 0..15 : HexDigits[v + 1] = d
           Pow2(k) == CASE k = 0 -> 1 [] k = 1 -> 2 [] k = 2 -> 4 [] k = 3 -> 8
                        [] k = 4 -> 16 [] k = 5 -> 32 [] k = 6 -> 64 [] k = 7 -> 128
           Bit(x, k) == (x \div Pow2(k)) % 2
       IN /\ Len(out) = n + 5
          /\ SubSeq(out, 1, n) = s
          /\ out[n + 1] = 42
          /\ out[n + 2] \in {HexDigits[i] : i \in 1..16}
          /\ out[n + 3] \in {HexDigits[i] : i \in 1..16}
          /\ \A k \in 0..7 :
                Bit(16 * Value(out[n + 2]) + Value(out[n + 3]), k)
                  = Cardinality({i \in 2..n : Bit(s[i], k) = 1}) % 2
          /\ out[n + 4] = 13 /\ out[n + 5] = 10
          /\ {i \in 1..Len(out) : out[i] = 42} = {n + 1}

\* The no-fix GGA sentence of the tests has been formatted: its checksum is
\* "7A".
C25_NoFixGGA ==
  \E c \in Callers :
    /\ callers[c].pc = "returned" /\ callers[c].op = "formatNMEA"
    /\ Len(callers[c].arg[1]) = 21
    /\ SubSeq(callers[c].arg[2], 22, 24) = <<42, 55, 65>>

\* C26: ReadGPXFile returns the track's points when the track has a point,
\* otherwise the first route's points, field by field, and an error when
\* neither has a point or the file cannot be opened or decoded; NewSimulator
\* with a replay file whose load fails returns "failed to load replay file"
\* and no simulator, and otherwise a simulator at the first point.
C26_ReplayLoad ==
  \A c \in Callers :
    /\ (callers[c].pc = "returned" /\ callers[c].op = "ReadGPXFile")
       => LET gpx == GPXFiles(callers[c].arg[1])
              points == callers[c].arg[2]
          IN IF gpx.opens /\ gpx.decodes /\ Len(gpx.track) > 0
               THEN callers[c].ret = "nil" /\ points = gpx.track
             ELSE IF gpx.opens /\ gpx.decodes /\ Len(gpx.routes) > 0 /\ Len(gpx.routes[1]) > 0
               THEN /\ callers[c].ret = "nil"
                    /\ Len(points) = Len(gpx.routes[1])
                    /\ \A i \in 1..Len(points) :
                          /\ points[i].Lat = gpx.routes[1][i].Lat
                          /\ points[i].Lon = gpx.routes[1][i].Lon
                          /\ points[i].Elevation = gpx.routes[1][i].Elevation
                          /\ points[i].Time = gpx.routes[1][i].Time
             ELSE callers[c].ret # "nil"
    /\ (callers[c].pc = "returned" /\ callers[c].op = "NewSimulator"
          /\ callers[c].arg[1].ReplayFile # "")
       => LET config == callers[c].arg[1]
              gpx == GPXFiles(config.ReplayFile)
              first == IF Len(gpx.track) > 0 THEN gpx.track[1] ELSE gpx.routes[1][1]
          IN IF /\ gpx.opens /\ gpx.decodes
                /\ (Len(gpx.track) > 0 \/ (Len(gpx.routes) > 0 /\ Len(gpx.routes[1]) > 0))
               THEN /\ callers[c].ret = "nil"
                    /\ sim.config = config
                    /\ sim.currentLat = first.Lat
                    /\ sim.currentLon = first.Lon
                    /\ sim.currentAlt = first.Elevation
               ELSE /\ callers[c].ret = "failed to load replay file"
                    /\ sim.config # config

\* A file whose track is empty has been loaded from its first route.
C26_LoadedFromRoute ==
  \E c \in Callers :
    /\ callers[c].pc = "returned" /\ callers[c].op = "NewSimulator"
    /\ callers[c].arg[1].ReplayFile = "routes.gpx"
    /\ callers[c].ret = "nil"
    /\ Len(sim.replayPoints) = 3

\* C27: with the track recorder enabled, the recording step of a tick appends
\* exactly one point when the simulator is locked and none when it is not; it
\* rewrites the file exactly when the point count becomes a multiple of 10;
\* and once the simulator is stopped and its run goroutines have ended, the
\* file holds every recorded point.
C27_RecorderFlushedOnStop ==
  [][/\ \A g \in Runs :
          (runs[g].pc = "gpx" /\ runs'[g].pc = "check" /\ sim.gpxWriter)
          => /\ Len(sim'.gpxPoints) = Len(sim.gpxPoints) + (IF sim.isLocked THEN 1 ELSE 0)
             /\ (sim'.gpxFile.points # sim.gpxFile.points)
                  <=> (sim.isLocked /\ Len(sim'.gpxPoints) % 10 = 0)
     /\ (/\ sim'.gpxWriter /\ ~sim'.running
         /\ Len(runs') > 0
         /\ \A g \in 1..Len(runs') : runs'[g].pc = "done")
          => sim'.gpxFile.points = Len(sim'.gpxPoints)
    ]_vars

\* C28: the Position of a Status a caller keeps reads the same after a later
\* update of the simulator as before it: its fields and the satellites of its
\* list are those of the instant GetStatus returned.
C28_SnapshotKeepsSatellites ==
  [][\A c \in Callers :
       (/\ callers[c].pc = "returned" /\ Len(callers[c].arg) = 1
        /\ "GetStatus" \in program.ops
        /\ callers'[c].arg = callers[c].arg)
       => LET position == callers[c].arg[1].Position
          IN Elements(position.Satellites, sim') = Elements(position.Satellites, sim)
    ]_vars

\* C29: a tick that leaves the simulator unlocked leaves latitude, longitude,
\* altitude, speed, course and every other field but the satellites as they
\* were; a tick that leaves it locked changes them as the Replay Engine alone
\* does when a replay file is configured, and as the Motion Model alone does
\* (speed and course, then position, then altitude) otherwise; and every
\* tick changes the satellites as the Satellite Model does.
C29_OneEnginePerTick ==
  [][UpdateStep
     => LET s1 == [sim EXCEPT !.isLocked = sim'.isLocked]
            after == [sim' EXCEPT !.satellites = sim.satellites]
        IN /\ \E d \in SatDraws(randLeft) :
                sim'.satellites = updateSatellites(sim.satellites, [i \in 1..Len(sim.satellites) |-> d])
           /\ ~sim'.isLocked => after = sim
           /\ (sim'.isLocked /\ sim.config.ReplayFile # "") => after = updateReplayPosition(s1, now)
           /\ (sim'.isLocked /\ sim.config.ReplayFile = "")
                => \E m \in MotionDraws(sim.config, randLeft) :
                     after = updateAltitude(updatePosition(updateSpeedAndCourse(s1, m.us, m.uc), now, m.ub),
                                            m.ua * (1 + sim.config.AltitudeJitter * 2))
    ]_vars

\* A locked tick of a replay has moved the cursor and left the Motion Model's
\* clock where the constructor set it.
C29_ReplayTickOnly ==
  /\ sim.config.ReplayFile # "" /\ sim.isLocked
  /\ sim.replayIndex > 0 /\ now > 0
  /\ sim.lastUpdateTime = 0

\* C30: updatePosition called when the time since the last update is zero or
\* negative leaves latitude and longitude as it found them, whatever the
\* speed, the course, the jitter and the distance from the centre.
C30_NoElapsedTimeNoMove ==
  \A c \in Callers :
    (callers[c].pc = "returned" /\ callers[c].op = "updatePosition" /\ callers[c].arg[1] <= 0)
    => /\ sim.currentLat = callers[c].arg[2]
       /\ sim.currentLon = callers[c].arg[3]
       /\ sim.currentLatUlps = callers[c].arg[4]

\* updatePosition has returned from a call a second before the last update,
\* with the simulator moving and outside its radius.
C30_ClockWentBack ==
  \E c \in Callers :
    /\ callers[c].pc = "returned" /\ callers[c].op = "updatePosition"
    /\ callers[c].arg[1] < 0
    /\ sim.currentSpeed > 0
    /\ sim.config.Radius > 0 /\ distanceFromCenter(sim, sim.currentLat, sim.currentLon) > sim.config.Radius

\* C31: a call of updateReplayPosition on a track that progresses by index
\* (timestamps not non-decreasing, or fewer than two points), t seconds after
\* the replay start and at a positive ReplaySpeed, returns with the cursor at
\* k = t * ReplaySpeed: when looping, at k mod len(points) with the position
\* of that point; when not looping, at point k with its position while
\* k < len(points), and with the replay Completed once k >= len(points).
C31_IndexBasedCursor ==
  \A c \in Callers :
    (/\ callers[c].pc = "returned" /\ callers[c].op = "updateReplayPosition"
     /\ ~hasSequentialTimestamps(sim.replayPoints)
     /\ callers[c].arg[1] >= 0 /\ callers[c].arg[2] > 0)
    => /\ callers[c].ret = ""
       /\ LET n == Len(sim.replayPoints)
              k == callers[c].arg[1] * callers[c].arg[2]
              at == IF sim.config.ReplayLoop THEN k % n ELSE k
          IN /\ sim.replayIndex = at
             /\ at < n => /\ sim.currentLat = sim.replayPoints[at + 1].Lat
                          /\ sim.currentLon = sim.replayPoints[at + 1].Lon
                          /\ sim.currentAlt = sim.replayPoints[at + 1].Elevation
             /\ (~sim.config.ReplayLoop /\ k >= n) => sim.replayCompleted

\* C32: hasSequentialTimestamps answers true exactly for a sequence of at
\* least two points none of whose timestamps is earlier than the one before
\* it, equal timestamps included, and false for every other sequence, the
\* single point and the empty sequence among them; a replay tick progresses
\* by timestamp exactly when it answers true.
C32_ModeFromTimestamps ==
  \A c \in Callers :
    /\ (callers[c].pc = "returned" /\ callers[c].op = "hasSequentialTimestamps")
       => LET points == callers[c].arg[1]
          IN (callers[c].ret = "true")
               <=> /\ Len(points) >= 2
                   /\ \A i \in 2..Len(points) : points[i].Time >= points[i - 1].Time
    /\ (/\ callers[c].pc = "returned" /\ callers[c].op = "updateReplayPosition" /\ callers[c].ret = ""
        /\ callers[c].arg[1] > 0 /\ callers[c].arg[2] > 0 /\ ~sim.config.ReplayLoop)
       => LET points == sim.replayPoints
              n == Len(points)
              sequential == n >= 2 /\ \A i \in 2..n : points[i].Time >= points[i - 1].Time
          IN IF sequential
               THEN sim.replayIndex <= n
                    /\ (sim.replayIndex < n
                          => points[sim.replayIndex + 1].Time - points[1].Time
                               <= callers[c].arg[1] * callers[c].arg[2])
               ELSE sim.replayIndex = callers[c].arg[1] * callers[c].arg[2]

\* hasSequentialTimestamps has answered true for three points of which two
\* share a timestamp.
C32_EqualTimestamps ==
  \E c \in Callers :
    /\ callers[c].pc = "returned" /\ callers[c].op = "hasSequentialTimestamps"
    /\ callers[c].ret = "true"
    /\ Len(callers[c].arg[1]) = 3
    /\ callers[c].arg[1][1].Time = callers[c].arg[1][2].Time

\* The steps of the first satellite that one call of updateSatellites can
\* take from the state: of its elevation, of its azimuth modulo 360 and of
\* its signal-to-noise ratio.
PossibleSteps ==
  { [Elevation |-> after[1].Elevation - sim.satellites[1].Elevation,
     Azimuth |-> (after[1].Azimuth - sim.satellites[1].Azimuth + 360) % 360,
     SNR |-> after[1].SNR - sim.satellites[1].SNR] :
      after \in { updateSatellites(sim.satellites, [i \in 1..Len(sim.satellites) |-> d]) :
                    d \in EverySatDraw } }

\* C33: from values that no step takes to a clamp, the steps one call of
\* updateSatellites can take are exactly -1, 0, +1 for the elevation,
\* exactly -1, 0, +1 modulo 360 for the azimuth and exactly -3 .. +3 for the
\* signal-to-noise ratio: each of them can be taken and no other.
C33_StepSets ==
  (/\ "rand.Intn" \in program.ops /\ randLeft > 0
   /\ \A c \in Callers : callers[c].pc \in {"idle", "returned"})
  => /\ {step.Elevation : step \in PossibleSteps} = {0 - 1, 0, 1}
     /\ {step.Azimuth : step \in PossibleSteps} = {359, 0, 1}
     /\ {step.SNR : step \in PossibleSteps} = (0 - 3)..3
     /\ \A step \in PossibleSteps :
          ENABLED (/\ SeedNext
                   /\ sim'.satellites[1].Elevation = sim.satellites[1].Elevation + step.Elevation
                   /\ sim'.satellites[1].Azimuth = (sim.satellites[1].Azimuth + step.Azimuth) % 360
                   /\ sim'.satellites[1].SNR = sim.satellites[1].SNR + step.SNR)

\* C34: a call of updateReplayPosition that finds ReplaySpeed <= 0 returns
\* without a fault, leaves the stored ReplaySpeed at 1 and the simulator as
\* the same call with ReplaySpeed = 1 leaves it; a call that finds a positive
\* ReplaySpeed leaves the stored value as it is.
C34_NonPositiveSpeedCoerced ==
  [][(randLeft' # randLeft /\ "updateReplayPosition" \in program.ops)
     => IF sim.config.ReplaySpeed <= 0
          THEN /\ \A c \in Callers : callers'[c].ret = ""
               /\ sim'.config.ReplaySpeed = 1
               /\ sim' = updateReplayPosition([sim EXCEPT !.config.ReplaySpeed = 1], now)
          ELSE sim'.config.ReplaySpeed = sim.config.ReplaySpeed
    ]_vars

\* A call that found a ReplaySpeed of 0 or less, two seconds after the replay
\* start, has left the speed at 1 and the cursor at the third point.
C34_CoercedAndProgressed ==
  \E c \in Callers :
    /\ callers[c].pc = "returned" /\ callers[c].op = "updateReplayPosition"
    /\ callers[c].arg[2] <= 0 /\ callers[c].arg[1] = 2
    /\ sim.config.ReplaySpeed = 1
    /\ sim.replayIndex = 2 /\ sim.currentLon = 30

\* C35: a run goroutine spawned by an earlier Start than the latest never
\* waits for the ticks of the latest run: when it waits in its select, the
\* context it waits on is cancelled, so that it exits and only the loop of
\* the latest Start processes ticks.
C35_OnlyLatestLoopLive ==
  \A g \in Runs :
    (g < Len(runs) /\ runs[g].pc = "wait") => runs[g].ctx \in cancelled

\* C36: while the running flag is false (after a Stop and before the next
\* Start) no run goroutine performs an effect of a tick: no update of the
\* state, no write to the sink, no dispatch to an observer and no append to
\* the track recorder.
C36_NoTickEffectsWhileStopped ==
  [][~sim.running
     => \A g \in Runs :
          /\ ~(runs[g].pc = "updating" /\ runs'[g].pc = "encode")
          /\ ~(runs[g].pc = "write" /\ runs'[g].pc = "dispatch" /\ sim.nmeaWriter)
          /\ ~(runs[g].pc = "dispatch" /\ Len(inflight') > Len(inflight))
          /\ ~(runs[g].pc = "gpx" /\ Len(sim'.gpxPoints) > Len(sim.gpxPoints))
    ]_vars

\* C37: the Stop a run goroutine calls by itself, for its duration deadline
\* or for the completion of its replay, clears the running flag only of the
\* run that goroutine was started for: the goroutine is the one the latest
\* Start spawned.
C37_AutoStopOwnRun ==
  [][\A g \in Runs :
       (runs[g].pc = "stopping" /\ runs'[g].pc = "exit" /\ sim.running /\ ~sim'.running)
       => g = Len(runs)
    ]_vars

\* C38: the lock flag is false after construction and no step sets it back
\* to false once it is true, so that a run goroutine that encodes while the
\* flag is true never builds no-fix sentences.
C38_LockMonotonic ==
  /\ ~sim.isLocked
  /\ [][/\ sim.isLocked => sim'.isLocked
        /\ \A g \in Runs :
             (runs[g].pc = "encode" /\ runs'[g].pc # "encode" /\ sim.isLocked)
             => runs'[g].sentences[1] = "GGA"
       ]_vars

\* A second run has been started, and its time to lock has not passed, with
\* the flag still true from the first run.
C38_LockedAcrossRestart ==
  /\ sim.isLocked /\ sim.running
  /\ Len(runs) = 2
  /\ now < sim.lockTime

\* C39: no step clears the Completed flag once it is set; a successful Start
\* leaves the cursor and the replay start time as they were; and a run
\* goroutine that ends a tick of a replay that is not looped and is
\* Completed goes on to stop the simulator.
C39_ReplayProgressSurvives ==
  [][/\ sim.replayCompleted => sim'.replayCompleted
     /\ (\E c \in Callers : /\ callers[c].pc = "held" /\ callers[c].op = "Start"
                             /\ callers'[c].pc = "returned")
          => /\ sim'.replayIndex = sim.replayIndex
             /\ sim'.replayStartTime = sim.replayStartTime
             /\ sim'.replayCompleted = sim.replayCompleted
     /\ \A g \in Runs :
          (runs[g].pc = "check" /\ runs'[g].pc # "check" /\ ReplayDone(sim))
          => runs'[g].pc = "stop" /\ runs'[g].why = "replay"
    ]_vars

\* The goroutine of a second run, started after the replay was Completed, is
\* about to stop the simulator for the completion.
C39_SecondRunStopsItself ==
  /\ Len(runs) = 2 /\ sim.running
  /\ runs[1].pc = "done"
  /\ runs[2].pc = "stop" /\ runs[2].why = "replay"
  /\ sim.replayCompleted /\ ~sim.config.ReplayLoop

\* C40: the elapsed time a locked tick of a running simulator moves the
\* position by does not reach back before the Start of the current run: not
\* the time since the last update that the Motion Model uses, and not the
\* time since the replay start that the Replay Engine uses.
C40_ElapsedWithinRun ==
  [][\A g \in Runs :
       (runs[g].pc = "updating" /\ runs'[g].pc = "encode" /\ sim.running /\ sim'.isLocked)
       => IF sim.config.ReplayFile # ""
            THEN now - sim.replayStartTime <= now - sim.startTime
            ELSE now - sim.lastUpdateTime <= now - sim.startTime
    ]_vars

====
